---------------------------- MODULE Spec2Model ----------------------------
(***************************************************************************)
(* Verification model of the LinkedIn networking bot's throttling and      *)
(* resilience code: RateLimiter (src/src/rate-limiter.mjs), the cron task  *)
(* scheduler (src/src/task-scheduler.mjs), main's action loops             *)
(* (src/src/linkedin-bot.mjs), ProxyManager (src/unnamed/part_001),        *)
(* SessionManager (src/src/session-manager.mjs), the error handler         *)
(* (src/README.md) and CaptchaSolver (src/src/captcha-solver.mjs).         *)
(*                                                                         *)
(* Time is counted in whole hours since midnight of day 0 (a Sunday).      *)
(***************************************************************************)
EXTENDS Integers, Sequences, FiniteSets, TLC

VARIABLES
    now,                    \* the wall clock (Date.now()), in hours
    \* ---- RateLimiter fields
    connectionCount, weeklyConnectionCount, messageCount,
    lastResetDate, lastWeeklyReset,
    consecutiveFailures, backoffMultiplier,
    streak,                 \* detections in a row, counted from a state with
                            \* consecutiveFailures = 0 (-1: a detection-free
                            \* call came in between): calls counts on through
                            \* a weekly reset, sinceReset starts again at one
    resets,                 \* what the resetCounters calls did: the dates of
                            \* the last two calls and the resets they made
    \* ---- observation of the rate limiter's callers
    lastCall,               \* the last completed RateLimiter call and its result
    dayAdmits,              \* incrementConnectionCount calls on the current date
    cyclePc,                \* the sequential client's position in its cycle
    hrl,                    \* the handleRateLimit call in flight, if any
    \* ---- task scheduler: the JSON files and the invocations in flight
    queueFile, pendingFile,
    task,
    overlaps,               \* invocations started while another was in flight
    \* ---- main of linkedin-bot.mjs
    mainPc, connectionsSent, messagesSent,
    connectAttempts,        \* sendOneConnectionRequest calls of this run
    mainCycle,              \* the current loop cycle: its admission check and action
    \* ---- ProxyManager fields
    proxyList, proxyScores, blacklistedProxies, lastProxyTest,
    lastRotation, currentProxy,
    \* ---- ProxyManager calls
    loads,                  \* fetchProxies calls that returned records: each
                            \* parses new objects
    scoreOps,               \* calls so far that did arithmetic on a score
    gnp,                    \* the getNextProxy call in flight, if any
    bgVal,                  \* the validateProxies call loadProxies left running
    lastReturn,             \* what the last getNextProxy / getRandomProxy returned
    probes,                 \* the outcome of the last probe of each address,
                            \* and the validateProxy calls of the last step
    \* ---- SessionManager fields and the cookie store
    sessionStartTime, detectionScore, cookiesFile,
    lastSession,            \* the last completed SessionManager call
    \* ---- error handler
    retry,                  \* the withRetry call: its locals and what it did
    \* ---- captcha solver
    captcha,                \* the submitAndGetSolution call
    \* ---- follow-up messages
    messagedFile,           \* messaged.json: the profiles recorded as messaged
    connections,            \* the profiles the account is connected with
    sof,                    \* the sendOneFollowUpMessage call
    pfm,                    \* the processFollowUpMessages invocation
    lastSend,               \* the last follow-up sent or recorded
    \* ---- SessionManager's login retries
    loginRetries,
    login,                  \* the handleLoginRetry call
    \* ---- QueueManager: its files and the calls in flight
    qmQueue, processedFile,
    adds,                   \* the addToQueue / addBatchToQueue call of each caller
    \* ---- request interceptor
    req                     \* the intercepted request and its handler

rateVars == <<connectionCount, weeklyConnectionCount, messageCount,
              lastResetDate, lastWeeklyReset,
              consecutiveFailures, backoffMultiplier, streak, resets>>
schedVars == <<queueFile, pendingFile, task, overlaps>>
mainVars == <<mainPc, connectionsSent, messagesSent, connectAttempts, mainCycle>>
proxyVars == <<proxyList, proxyScores, blacklistedProxies, lastProxyTest,
               lastRotation, currentProxy, loads, scoreOps, gnp, bgVal, lastReturn, probes>>
sessVars == <<sessionStartTime, detectionScore, cookiesFile, lastSession>>
followVars == <<messagedFile, connections, sof, pfm, lastSend>>
loginVars == <<loginRetries, login>>
qmVars == <<qmQueue, processedFile, adds>>
restVars == <<loginVars, qmVars, req>>
vars == <<now, rateVars, lastCall, dayAdmits, cyclePc, hrl, schedVars, mainVars,
          proxyVars, sessVars, retry, captcha, followVars, restVars>>

---------------------------------------------------------------------------
(* Bounds of the model *)
MaxDay == 2
MaxFailures == 5
QueueLen == 17          \* profiles in queue.json when the scheduler starts
NumTasks == 2           \* processConnectionQueue invocations that may overlap
MaxOverlaps == 1        \* invocations started while another is in flight
SchedMaxNow == 22       \* the last clock reading of a scheduler run
MaxAttempts == 12       \* connectAttempts stops counting here
NumProxies == 1         \* records the proxy source lists
MaxLoads == 2           \* fetchProxies calls that return records
MaxScoreOps == 6        \* calls that do arithmetic on a score
ProxyMaxNow == 9        \* the last clock reading of a proxy manager run
MaxRequests == 2         \* requests the page emits in a run
MaxBatch == 2            \* profiles of one addBatchToQueue call
MaxProcessed == 2        \* entries of processed.json
MaxLoginCalls == 3       \* handleLoginRetry calls of a run
NumUsers == 2            \* profiles a connection request may go to
FollowMaxDay == 3        \* the last date of a follow-up run
MaxDetectionScore == 6  \* no indicator is found once detectionScore is this high
SessMaxNow == 11        \* the last clock reading of a session manager run

(* Clock readings the model samples within a day: just outside and just    *)
(* inside each end of the operating window.                                *)
SampleHours == {7, 8, 22, 23}

---------------------------------------------------------------------------
(* RateLimiter: constants set by the constructor *)
dailyConnectionLimit == 15
weeklyConnectionLimit == 80
dailyMessageLimit == 50
MaxBackoff == 8
BaseDelayHours == 1

(* new Date().toDateString(): equal exactly for instants of one calendar day *)
DateString(t) == t \div 24
(* new Date().getDay(): 0 = Sunday, 1 = Monday *)
GetDay(t) == (t \div 24) % 7
(* new Date().getHours() *)
GetHours(t) == t % 24
(* the week a date lies in, weeks beginning on Monday (date 0 is a Sunday) *)
Week(d) == (d + 6) \div 7

Pow2(n) == IF n <= 0 THEN 1 ELSE 2 ^ n
Min(a, b) == IF a <= b THEN a ELSE b
Max(a, b) == IF a >= b THEN a ELSE b

(* backoffMultiplier is a double; every value it takes is an exact dyadic  *)
(* rational, kept here as a reduced fraction n/d.                          *)
RECURSIVE Reduce(_)
Reduce(m) == IF m.n % 2 = 0 /\ m.d % 2 = 0
             THEN Reduce([n |-> m.n \div 2, d |-> m.d \div 2])
             ELSE m
Whole(k) == [n |-> k, d |-> 1]
(* a decay without the floor of 1 *)
DecayBackoffNoFloor(m) == Reduce([n |-> m.n * 3, d |-> m.d * 4])
(* Math.max(1, backoffMultiplier * 0.75) *)
DecayBackoff(m) ==
    LET p == Reduce([n |-> m.n * 3, d |-> m.d * 4])
    IN  IF p.n < p.d THEN Whole(1) ELSE p

(* a backoff that grows by one per detection *)
BackoffLinear(failures) == Whole(Min(failures, MaxBackoff))
(* Math.min(Math.pow(2, this.consecutiveFailures - 1), 8) *)
Backoff(failures) == Whole(Min(Pow2(failures - 1), MaxBackoff))

(* A mutation of resetCounters: the daily branch runs on every call *)
ResetCountersEveryCall(t) ==
    LET weekly == GetDay(t) = 1 /\ DateString(t) # lastWeeklyReset
    IN  [connectionCount       |-> 0,
         messageCount          |-> 0,
         lastResetDate         |-> DateString(t),
         weeklyConnectionCount |-> IF weekly THEN 0 ELSE weeklyConnectionCount,
         lastWeeklyReset       |-> IF weekly THEN DateString(t) ELSE lastWeeklyReset,
         consecutiveFailures   |-> IF weekly THEN 0 ELSE consecutiveFailures,
         backoffMultiplier     |-> IF weekly THEN Whole(1) ELSE backoffMultiplier,
         daily                 |-> TRUE,
         weekly                |-> weekly]

(* A mutation of resetCounters: the daily branch resets the backoff too *)
ResetCountersBackoffDaily(t) ==
    LET daily  == DateString(t) # lastResetDate
        weekly == GetDay(t) = 1 /\ DateString(t) # lastWeeklyReset
    IN  [connectionCount       |-> IF daily THEN 0 ELSE connectionCount,
         messageCount          |-> IF daily THEN 0 ELSE messageCount,
         lastResetDate         |-> IF daily THEN DateString(t) ELSE lastResetDate,
         weeklyConnectionCount |-> IF weekly THEN 0 ELSE weeklyConnectionCount,
         lastWeeklyReset       |-> IF weekly THEN DateString(t) ELSE lastWeeklyReset,
         consecutiveFailures   |-> IF daily \/ weekly THEN 0 ELSE consecutiveFailures,
         backoffMultiplier     |-> IF daily \/ weekly THEN Whole(1)
                                                      ELSE backoffMultiplier,
         daily                 |-> daily,
         weekly                |-> weekly]

(* resetCounters(): the fields as they are once it has run at time t, and  *)
(* which of its two branches ran                                           *)
ResetCounters(t) ==
    LET daily  == DateString(t) # lastResetDate
        weekly == GetDay(t) = 1 /\ DateString(t) # lastWeeklyReset
    IN  [daily                 |-> daily,
         weekly                |-> weekly,
         connectionCount       |-> IF daily THEN 0 ELSE connectionCount,
         messageCount          |-> IF daily THEN 0 ELSE messageCount,
         lastResetDate         |-> IF daily THEN DateString(t) ELSE lastResetDate,
         weeklyConnectionCount |-> IF weekly THEN 0 ELSE weeklyConnectionCount,
         lastWeeklyReset       |-> IF weekly THEN DateString(t) ELSE lastWeeklyReset,
         consecutiveFailures   |-> IF weekly THEN 0 ELSE consecutiveFailures,
         backoffMultiplier     |-> IF weekly THEN Whole(1) ELSE backoffMultiplier]

(* A mutation of the admission decision: the daily comparison is strict.   *)
ConnectionAdmittedStrict(r, t) ==
    IF r.connectionCount > dailyConnectionLimit THEN FALSE
    ELSE IF r.weeklyConnectionCount >= weeklyConnectionLimit THEN FALSE
    ELSE IF GetHours(t) < 8 \/ GetHours(t) > 22 THEN FALSE
    ELSE TRUE

(* checkConnectionLimit()'s return value, r being the fields after its     *)
(* resetCounters() and t the time of the call                              *)
ConnectionAdmitted(r, t) ==
    IF r.connectionCount >= dailyConnectionLimit THEN FALSE
    ELSE IF r.weeklyConnectionCount >= weeklyConnectionLimit THEN FALSE
    ELSE IF GetHours(t) < 8 \/ GetHours(t) > 22 THEN FALSE
    ELSE TRUE

BoolStr(b) == IF b THEN "true" ELSE "false"

Call(op, result, r) ==
    [op |-> op, result |-> result, at |-> now,
     cooldown |-> (hrl.pc = "waiting" /\ now < hrl.wakeAt),
     connectionCount |-> r.connectionCount,
     weeklyConnectionCount |-> r.weeklyConnectionCount,
     messageCount |-> r.messageCount]

Fields == [connectionCount |-> connectionCount, messageCount |-> messageCount,
           lastResetDate |-> lastResetDate,
           weeklyConnectionCount |-> weeklyConnectionCount,
           lastWeeklyReset |-> lastWeeklyReset,
           consecutiveFailures |-> consecutiveFailures,
           backoffMultiplier |-> backoffMultiplier]

(* The fields take the values of r *)
Store(r) ==
    /\ connectionCount' = r.connectionCount
    /\ messageCount' = r.messageCount
    /\ lastResetDate' = r.lastResetDate
    /\ weeklyConnectionCount' = r.weeklyConnectionCount
    /\ lastWeeklyReset' = r.lastWeeklyReset
    /\ consecutiveFailures' = r.consecutiveFailures
    /\ backoffMultiplier' = r.backoffMultiplier
    /\ streak' = IF r.lastWeeklyReset # lastWeeklyReset
                 THEN [streak EXCEPT !.sinceReset = 0] ELSE streak
    /\ resets' = [called |-> TRUE,
                  callDate |-> DateString(now),
                  prevDate |-> resets.callDate,
                  daily |-> r.daily,
                  weekly |-> r.weekly,
                  dailyCount |-> (IF DateString(now) = resets.callDate
                                  THEN resets.dailyCount ELSE 0)
                                 + (IF r.daily THEN 1 ELSE 0),
                  weeklyCount |-> (IF Week(DateString(now)) = Week(resets.callDate)
                                   THEN resets.weeklyCount ELSE 0)
                                  + (IF r.weekly THEN 1 ELSE 0)]

(* A mutation of checkConnectionLimit: a denial clears the daily count *)
CheckConnectionLimitClearing ==
    LET r == ResetCounters(now)
        s == IF ConnectionAdmitted(r, now) THEN r
             ELSE [r EXCEPT !.connectionCount = 0]
    IN  /\ Store(s)
        /\ lastCall' = Call("checkConnectionLimit",
                            BoolStr(ConnectionAdmitted(r, now)), s)

(* checkConnectionLimit() *)
CheckConnectionLimit ==
    LET r == ResetCounters(now)
    IN  /\ Store(r)
        /\ lastCall' = Call("checkConnectionLimit",
                            BoolStr(ConnectionAdmitted(r, now)), r)

(* incrementConnectionCount() *)
IncrementConnectionCount ==
    LET r == ResetCounters(now)
        s == [r EXCEPT !.connectionCount = @ + 1,
                       !.weeklyConnectionCount = @ + 1]
    IN  /\ Store(s)
        /\ lastCall' = Call("incrementConnectionCount", "done", s)
        /\ dayAdmits' = dayAdmits + 1

(* checkMessageLimit(): its first statement calls this.resetDailyCounters, *)
(* which the class does not define, so the call rejects with a TypeError   *)
(* before it reads a counter.                                              *)
CheckMessageLimit ==
    /\ lastCall' = Call("checkMessageLimit", "TypeError", Fields)
    /\ UNCHANGED rateVars

(* incrementMessageCount(): rejects the same way, before the increment *)
IncrementMessageCount ==
    /\ lastCall' = Call("incrementMessageCount", "TypeError", Fields)
    /\ UNCHANGED rateVars

(* waitForNextAction(): rejects the same way, before it computes a delay *)
WaitForNextAction ==
    /\ lastCall' = Call("waitForNextAction", "TypeError", Fields)
    /\ UNCHANGED rateVars

(* handleRateLimit(page), up to its await: `detected` says whether one of  *)
(* the selectors matched an element of the page.                           *)
HandleRateLimitCall(detected) ==
    /\ hrl.pc = "idle"
    /\ IF detected
       THEN /\ consecutiveFailures < MaxFailures
            /\ consecutiveFailures' = consecutiveFailures + 1
            /\ backoffMultiplier' = Backoff(consecutiveFailures')
            /\ streak' = [f \in DOMAIN streak |->
                             IF streak[f] = -1 THEN -1 ELSE streak[f] + 1]
            /\ hrl' = [pc |-> "waiting",
                       wakeAt |-> now + BaseDelayHours
                                        * Min(Pow2(consecutiveFailures' - 1), MaxBackoff)]
            /\ UNCHANGED lastCall
       ELSE /\ IF consecutiveFailures > 0
               THEN /\ consecutiveFailures' = Max(0, consecutiveFailures - 1)
                    /\ backoffMultiplier' = DecayBackoff(backoffMultiplier)
                    /\ streak' = [f \in DOMAIN streak |->
                                     IF consecutiveFailures' = 0 THEN 0 ELSE -1]
               ELSE /\ streak' = [f \in DOMAIN streak |-> 0]
                    /\ UNCHANGED <<consecutiveFailures, backoffMultiplier>>
            /\ lastCall' = Call("handleRateLimit", "false", Fields)
            /\ UNCHANGED hrl
    /\ UNCHANGED <<connectionCount, weeklyConnectionCount, messageCount,
                   lastResetDate, lastWeeklyReset, resets>>

(* handleRateLimit's setTimeout fires and the call returns true *)
HandleRateLimitWake ==
    /\ hrl.pc = "waiting"
    /\ now >= hrl.wakeAt
    /\ hrl' = [pc |-> "idle", wakeAt |-> 0]
    /\ lastCall' = Call("handleRateLimit", "true", Fields)
    /\ UNCHANGED rateVars

(* The clock advances to a later sampled instant, at most a day ahead *)
Tick ==
    \E t \in (now + 1)..(now + 24) :
        /\ GetHours(t) \in SampleHours
        /\ DateString(t) <= MaxDay
        /\ now' = t
        /\ dayAdmits' = IF DateString(t) # DateString(now) THEN 0 ELSE dayAdmits

NoCall == [op |-> "none", result |-> "none", at |-> 0, cooldown |-> FALSE,
           connectionCount |-> 0,
           weeklyConnectionCount |-> 0, messageCount |-> 0]

InitRate ==
    /\ now = 8
    /\ connectionCount = 0
    /\ weeklyConnectionCount = 0
    /\ messageCount = 0
    /\ lastResetDate = DateString(now)
    /\ lastWeeklyReset = DateString(now)
    /\ consecutiveFailures = 0
    /\ backoffMultiplier = Whole(1)
    /\ streak = [calls |-> 0, sinceReset |-> 0]
    /\ resets = [called |-> FALSE, callDate |-> DateString(now),
                 prevDate |-> DateString(now), daily |-> FALSE, weekly |-> FALSE,
                 dailyCount |-> 0, weeklyCount |-> 0]
    /\ lastCall = NoCall
    /\ dayAdmits = 0
    /\ cyclePc = "idle"
    /\ hrl = [pc |-> "idle", wakeAt |-> 0]

Tasks == 1..NumTasks
IdleTask == [pc |-> "idle", queue |-> <<>>, pending |-> <<>>, admitted |-> FALSE]

InitSched ==
    /\ queueFile = [i \in 1..QueueLen |-> i]
    /\ pendingFile = <<>>
    /\ task = [t \in Tasks |-> IdleTask]
    /\ overlaps = 0

---------------------------------------------------------------------------
(* A sequential client of the rate limiter: it awaits every call before    *)
(* the next one, and records a connection only after an admission.         *)

SeqTick == Tick /\ UNCHANGED <<rateVars, lastCall, cyclePc, hrl, schedVars, mainVars, proxyVars, sessVars, retry, captcha, followVars, restVars>>

SeqCheck ==
    /\ cyclePc = "idle" /\ hrl.pc = "idle"
    /\ CheckConnectionLimit
    /\ cyclePc' = IF lastCall'.result = "true" THEN "admitted" ELSE "idle"
    /\ UNCHANGED <<now, dayAdmits, hrl, schedVars, mainVars, proxyVars, sessVars, retry, captcha, followVars, restVars>>

SeqIncrement ==
    /\ cyclePc = "admitted"
    /\ IncrementConnectionCount
    /\ cyclePc' = "idle"
    /\ UNCHANGED <<now, hrl, schedVars, mainVars, proxyVars, sessVars, retry, captcha, followVars, restVars>>

SeqCheckMessage ==
    /\ cyclePc = "idle" /\ hrl.pc = "idle"
    /\ CheckMessageLimit
    /\ UNCHANGED <<now, dayAdmits, cyclePc, hrl, schedVars, mainVars, proxyVars, sessVars, retry, captcha, followVars, restVars>>

SeqIncrementMessage ==
    /\ cyclePc = "idle" /\ hrl.pc = "idle"
    /\ IncrementMessageCount
    /\ UNCHANGED <<now, dayAdmits, cyclePc, hrl, schedVars, mainVars, proxyVars, sessVars, retry, captcha, followVars, restVars>>

SeqWaitForNextAction ==
    /\ cyclePc = "idle" /\ hrl.pc = "idle"
    /\ WaitForNextAction
    /\ UNCHANGED <<now, dayAdmits, cyclePc, hrl, schedVars, mainVars, proxyVars, sessVars, retry, captcha, followVars, restVars>>

SeqHandleRateLimit ==
    /\ cyclePc = "idle"
    /\ \E detected \in BOOLEAN : HandleRateLimitCall(detected)
    /\ UNCHANGED <<now, dayAdmits, cyclePc, schedVars, mainVars, proxyVars, sessVars, retry, captcha, followVars, restVars>>

SeqWake ==
    /\ HandleRateLimitWake
    /\ UNCHANGED <<now, dayAdmits, cyclePc, schedVars, mainVars, proxyVars, sessVars, retry, captcha, followVars, restVars>>

NextRate ==
    \/ SeqTick
    \/ SeqCheck
    \/ SeqIncrement
    \/ SeqCheckMessage
    \/ SeqIncrementMessage
    \/ SeqWaitForNextAction
    \/ SeqHandleRateLimit
    \/ SeqWake

---------------------------------------------------------------------------
(* The task scheduler.  cron invokes processConnectionQueue without        *)
(* waiting for an earlier invocation to finish, and startScheduler may be  *)
(* called more than once, so invocations may overlap; each runs from one   *)
(* await to the next without interruption.                                 *)

(* const queue = await loadJson(queueFile) *)
PcqLoadQueue(t) ==
    /\ task[t].pc = "idle"
    /\ IF \E u \in Tasks : task[u].pc # "idle"
       THEN overlaps < MaxOverlaps /\ overlaps' = overlaps + 1
       ELSE overlaps' = overlaps
    /\ task' = [task EXCEPT ![t] = [pc |-> "loadPending", queue |-> queueFile,
                                    pending |-> <<>>, admitted |-> FALSE]]
    /\ UNCHANGED <<now, rateVars, lastCall, dayAdmits, cyclePc, hrl,
                   queueFile, pendingFile, mainVars, proxyVars, sessVars, retry, captcha, followVars, restVars>>

(* const pending = await loadJson(pendingFile); an empty queue returns *)
PcqLoadPending(t) ==
    /\ task[t].pc = "loadPending"
    /\ task' = [task EXCEPT ![t] =
                   IF Len(task[t].queue) = 0
                   THEN IdleTask
                   ELSE [@ EXCEPT !.pc = "check", !.pending = pendingFile]]
    /\ UNCHANGED <<now, rateVars, lastCall, dayAdmits, cyclePc, hrl,
                   queueFile, pendingFile, overlaps, mainVars, proxyVars, sessVars, retry, captcha, followVars, restVars>>

(* await rateLimiter.checkConnectionLimit(); when admitted, the head of    *)
(* the queue moves to pending, stamped with the time                       *)
PcqCheck(t) ==
    /\ task[t].pc = "check"
    /\ CheckConnectionLimit
    /\ task' = [task EXCEPT ![t] =
                   IF lastCall'.result = "true"
                   THEN [pc |-> "saveQueue",
                         queue |-> Tail(task[t].queue),
                         pending |-> Append(task[t].pending,
                                            [profile |-> Head(task[t].queue),
                                             date |-> now]),
                         admitted |-> TRUE]
                   ELSE IdleTask]
    /\ UNCHANGED <<now, dayAdmits, cyclePc, hrl, queueFile, pendingFile, overlaps, mainVars, proxyVars, sessVars, retry, captcha, followVars, restVars>>

(* await saveJson(queueFile, queue) *)
PcqSaveQueue(t) ==
    /\ task[t].pc = "saveQueue"
    /\ queueFile' = task[t].queue
    /\ task' = [task EXCEPT ![t].pc = "savePending"]
    /\ UNCHANGED <<now, rateVars, lastCall, dayAdmits, cyclePc, hrl, pendingFile, overlaps, mainVars, proxyVars, sessVars, retry, captcha, followVars, restVars>>

(* await saveJson(pendingFile, pending) *)
PcqSavePending(t) ==
    /\ task[t].pc = "savePending"
    /\ pendingFile' = task[t].pending
    /\ task' = [task EXCEPT ![t].pc = "increment"]
    /\ UNCHANGED <<now, rateVars, lastCall, dayAdmits, cyclePc, hrl, queueFile, overlaps, mainVars, proxyVars, sessVars, retry, captcha, followVars, restVars>>

(* await rateLimiter.incrementConnectionCount() *)
PcqIncrement(t) ==
    /\ task[t].pc = "increment"
    /\ IncrementConnectionCount
    /\ task' = [task EXCEPT ![t] = IdleTask]
    /\ UNCHANGED <<now, cyclePc, hrl, queueFile, pendingFile, overlaps, mainVars, proxyVars, sessVars, retry, captcha, followVars, restVars>>

SchedTick ==
    /\ Tick
    /\ now' <= SchedMaxNow
    /\ UNCHANGED <<rateVars, lastCall, cyclePc, hrl, schedVars, mainVars, proxyVars, sessVars, retry, captcha, followVars, restVars>>

NextSched ==
    \/ SchedTick
    \/ \E t \in Tasks : PcqLoadQueue(t)
    \/ \E t \in Tasks : PcqLoadPending(t)
    \/ \E t \in Tasks : PcqCheck(t)
    \/ \E t \in Tasks : PcqSaveQueue(t)
    \/ \E t \in Tasks : PcqSavePending(t)
    \/ \E t \in Tasks : PcqIncrement(t)

(* saveJson(queueFile, queue) rejects (fs.writeFile failed): the catch of  *)
(* processConnectionQueue logs the error and the invocation ends           *)
PcqSaveQueueFails(t) ==
    /\ task[t].pc = "saveQueue"
    /\ task' = [task EXCEPT ![t] = IdleTask]
    /\ UNCHANGED <<now, rateVars, lastCall, dayAdmits, cyclePc, hrl, queueFile, pendingFile, overlaps, mainVars, proxyVars, sessVars, retry, captcha, followVars, restVars>>

(* saveJson(pendingFile, pending) rejects after queue.json was written *)
PcqSavePendingFails(t) ==
    /\ task[t].pc = "savePending"
    /\ task' = [task EXCEPT ![t] = IdleTask]
    /\ UNCHANGED <<now, rateVars, lastCall, dayAdmits, cyclePc, hrl, queueFile, pendingFile, overlaps, mainVars, proxyVars, sessVars, retry, captcha, followVars, restVars>>

(* One invocation at a time within one hour, with writes that may fail *)
NextMove ==
    \/ PcqLoadQueue(1)
    \/ PcqLoadPending(1)
    \/ PcqCheck(1)
    \/ PcqSaveQueue(1)
    \/ PcqSaveQueueFails(1)
    \/ PcqSavePending(1)
    \/ PcqSavePendingFails(1)
    \/ PcqIncrement(1)

(* The scheduler's invocations, one at a time, beside another asynchronous *)
(* task that calls handleRateLimit and awaits it                           *)
CoolHandleRateLimit ==
    /\ \E detected \in BOOLEAN : HandleRateLimitCall(detected)
    /\ UNCHANGED <<now, dayAdmits, cyclePc, schedVars, mainVars, proxyVars, sessVars, retry, captcha, followVars, restVars>>

CoolWake ==
    /\ HandleRateLimitWake
    /\ UNCHANGED <<now, dayAdmits, cyclePc, schedVars, mainVars, proxyVars, sessVars, retry, captcha, followVars, restVars>>

NextCooldown ==
    \/ SchedTick
    \/ CoolHandleRateLimit
    \/ CoolWake
    \/ PcqLoadQueue(1)
    \/ PcqLoadPending(1)
    \/ PcqCheck(1)
    \/ PcqSaveQueue(1)
    \/ PcqSavePending(1)
    \/ PcqIncrement(1)

---------------------------------------------------------------------------
(* main() of linkedin-bot.mjs, from its try block on.  The page and its    *)
(* automation are external: each call's outcome is an input.               *)
maxConnectionRequests == 5
maxFollowUpMessages == 3

InitMain ==
    /\ mainPc = "setup"
    /\ connectionsSent = 0
    /\ messagesSent = 0
    /\ connectAttempts = 0
    /\ mainCycle = [admission |-> "none", acted |-> FALSE]

MainFrame == UNCHANGED <<now, rateVars, lastCall, dayAdmits, cyclePc, hrl, schedVars,
                         proxyVars, sessVars, retry, captcha, followVars, restVars>>

(* Cookies, login and navigation: they complete, or throw into the catch   *)
(* block, after which finally closes the browser                           *)
MainSetup ==
    /\ mainPc = "setup"
    /\ \E ok \in BOOLEAN : mainPc' = IF ok THEN "connect" ELSE "closed"
    /\ UNCHANGED <<connectionsSent, messagesSent, connectAttempts, mainCycle>>
    /\ MainFrame

(* while (connectionsSent < maxConnectionRequests): the loop calls          *)
(* sendOneConnectionRequest(page) and awaits it                            *)
MainSendCall ==
    /\ mainPc = "connect"
    /\ connectionsSent < maxConnectionRequests
    /\ mainPc' = "sending"
    /\ connectAttempts' = Min(connectAttempts + 1, MaxAttempts)
    /\ mainCycle' = [admission |-> "none", acted |-> TRUE]
    /\ UNCHANGED <<connectionsSent, messagesSent>>
    /\ MainFrame

(* sendOneConnectionRequest returns true or false, or throws; the loop     *)
(* counts a true and, after its wait, starts the next cycle                *)
MainSendReturn ==
    /\ mainPc = "sending"
    /\ \E outcome \in {"true", "false", "throw"} :
          /\ connectionsSent' = IF outcome = "true" THEN connectionsSent + 1
                                ELSE connectionsSent
          /\ mainPc' = IF outcome = "throw" THEN "closed" ELSE "connect"
    /\ mainCycle' = [admission |-> "none", acted |-> FALSE]
    /\ UNCHANGED <<messagesSent, connectAttempts>>
    /\ MainFrame

(* The connection loop ends *)
MainConnectDone ==
    /\ mainPc = "connect"
    /\ ~(connectionsSent < maxConnectionRequests)
    /\ mainPc' = "followup"
    /\ UNCHANGED <<connectionsSent, messagesSent, connectAttempts, mainCycle>>
    /\ MainFrame

(* One cycle of while (messagesSent < maxFollowUpMessages) *)
MainFollowUpCycle ==
    /\ mainPc = "followup"
    /\ messagesSent < maxFollowUpMessages
    /\ \E outcome \in {"return", "throw"} :
          /\ messagesSent' = IF outcome = "return" THEN messagesSent + 1
                             ELSE messagesSent
          /\ mainPc' = IF outcome = "throw" THEN "closed" ELSE "followup"
    /\ UNCHANGED <<connectionsSent, connectAttempts, mainCycle>>
    /\ MainFrame

(* The follow-up loop ends; finally closes the browser *)
MainFollowUpDone ==
    /\ mainPc = "followup"
    /\ ~(messagesSent < maxFollowUpMessages)
    /\ mainPc' = "closed"
    /\ UNCHANGED <<connectionsSent, messagesSent, connectAttempts, mainCycle>>
    /\ MainFrame

NextMain ==
    \/ MainSetup
    \/ MainSendCall
    \/ MainSendReturn
    \/ MainConnectDone
    \/ MainFollowUpCycle
    \/ MainFollowUpDone

---------------------------------------------------------------------------
(* ProxyManager (src/unnamed/part_001).                                    *)
(*                                                                         *)
(* A Map or Set key is either a proxy_address string or a proxy object;    *)
(* objects are compared by identity, and every fetchProxies call parses    *)
(* new objects, told apart here by the number of the fetch.                *)
maxRetries == 3
TopCount == 3
proxyTestInterval == 1800000

Addrs == 1..NumProxies
StrKey(a) == [kind |-> "address", addr |-> a, gen |-> 0]
Obj(a, g) == [kind |-> "object", addr |-> a, gen |-> g]
Keys == {StrKey(a) : a \in Addrs} \cup {Obj(a, g) : a \in Addrs, g \in 1..MaxLoads}
Null == [kind |-> "null", addr |-> 0, gen |-> 0]

(* The scores are IEEE-754 doubles.  ScoreTable lists, in increasing       *)
(* order, every double within seven updates of the two values the code     *)
(* stores directly (1.0 and 0), and the threshold 0.2; v is the double as  *)
(* JavaScript prints it, add the place of Math.min(1, v + 0.1) and sub the *)
(* place of Math.max(0, v - 0.2), both computed in binary64 (0: further    *)
(* than seven updates away).  A score is kept as its v; "NaN" and          *)
(* "undefined" are the two other values a lookup can give.                 *)
ScoreTable == <<
    [v |-> "0", add |-> 6, sub |-> 1],
    [v |-> "2.7755575615628914e-17", add |-> 7, sub |-> 1],
    [v |-> "5.551115123125783e-17", add |-> 8, sub |-> 1],
    [v |-> "0.09999999999999992", add |-> 12, sub |-> 1],
    [v |-> "0.09999999999999998", add |-> 14, sub |-> 1],
    [v |-> "0.1", add |-> 15, sub |-> 1],
    [v |-> "0.10000000000000003", add |-> 16, sub |-> 1],
    [v |-> "0.10000000000000006", add |-> 17, sub |-> 1],
    [v |-> "0.10000000000000009", add |-> 18, sub |-> 1],
    [v |-> "0.19999999999999984", add |-> 0, sub |-> 1],
    [v |-> "0.1999999999999999", add |-> 20, sub |-> 1],
    [v |-> "0.19999999999999993", add |-> 20, sub |-> 1],
    [v |-> "0.19999999999999996", add |-> 20, sub |-> 1],
    [v |-> "0.19999999999999998", add |-> 21, sub |-> 1],
    [v |-> "0.2", add |-> 22, sub |-> 1],
    [v |-> "0.20000000000000004", add |-> 22, sub |-> 2],
    [v |-> "0.20000000000000007", add |-> 22, sub |-> 3],
    [v |-> "0.2000000000000001", add |-> 23, sub |-> 0],
    [v |-> "0.20000000000000012", add |-> 0, sub |-> 0],
    [v |-> "0.29999999999999993", add |-> 25, sub |-> 4],
    [v |-> "0.3", add |-> 27, sub |-> 5],
    [v |-> "0.30000000000000004", add |-> 27, sub |-> 7],
    [v |-> "0.3000000000000001", add |-> 29, sub |-> 9],
    [v |-> "0.39999999999999986", add |-> 31, sub |-> 10],
    [v |-> "0.3999999999999999", add |-> 31, sub |-> 11],
    [v |-> "0.39999999999999997", add |-> 33, sub |-> 13],
    [v |-> "0.4", add |-> 33, sub |-> 15],
    [v |-> "0.4000000000000001", add |-> 34, sub |-> 17],
    [v |-> "0.40000000000000013", add |-> 34, sub |-> 19],
    [v |-> "0.49999999999999983", add |-> 35, sub |-> 0],
    [v |-> "0.4999999999999999", add |-> 35, sub |-> 0],
    [v |-> "0.49999999999999994", add |-> 36, sub |-> 20],
    [v |-> "0.5", add |-> 36, sub |-> 21],
    [v |-> "0.5000000000000001", add |-> 37, sub |-> 23],
    [v |-> "0.5999999999999999", add |-> 38, sub |-> 24],
    [v |-> "0.6", add |-> 39, sub |-> 26],
    [v |-> "0.6000000000000001", add |-> 40, sub |-> 28],
    [v |-> "0.6999999999999998", add |-> 41, sub |-> 30],
    [v |-> "0.7", add |-> 42, sub |-> 32],
    [v |-> "0.7000000000000001", add |-> 43, sub |-> 33],
    [v |-> "0.7999999999999998", add |-> 0, sub |-> 35],
    [v |-> "0.7999999999999999", add |-> 44, sub |-> 35],
    [v |-> "0.8", add |-> 45, sub |-> 37],
    [v |-> "0.8999999999999999", add |-> 46, sub |-> 39],
    [v |-> "0.9", add |-> 47, sub |-> 39],
    [v |-> "0.9999999999999999", add |-> 47, sub |-> 41],
    [v |-> "1", add |-> 47, sub |-> 43] >>

Idx(s) == CHOOSE i \in DOMAIN ScoreTable : ScoreTable[i].v = s
IsNumber(s) == s \notin {"NaN", "undefined"}
(* Math.min(1, s + 0.1): undefined + 0.1 and NaN + 0.1 are NaN *)
Add01(s) == IF IsNumber(s) THEN ScoreTable[ScoreTable[Idx(s)].add].v ELSE "NaN"
(* Math.max(0, s - 0.2) *)
Sub02(s) == IF IsNumber(s) THEN ScoreTable[ScoreTable[Idx(s)].sub].v ELSE "NaN"
(* s <= 0.2: false for NaN and undefined *)
Le02(s) == IsNumber(s) /\ Idx(s) <= Idx("0.2")
(* s || 1.0: undefined, NaN and 0 are falsy *)
OrOne(s) == IF s \in {"NaN", "undefined", "0"} THEN "1" ELSE s

InitProxy ==
    /\ proxyList = <<>>
    /\ proxyScores = [k \in Keys |-> "undefined"]
    /\ blacklistedProxies = {}
    /\ lastProxyTest = [a \in Addrs |-> 0]
    /\ lastRotation = 0
    /\ currentProxy = Null
    /\ loads = 0
    /\ scoreOps = 0
    /\ gnp = [pc |-> "idle", caller |-> "none", selected |-> Null, retries |-> 0,
              amongTop |-> FALSE]
    /\ bgVal = [running |-> FALSE, list |-> <<>>, fresh |-> {}]
    /\ lastReturn = [by |-> "none", value |-> Null, blacklisted |-> FALSE,
                     selected |-> FALSE, amongTop |-> FALSE]
    /\ probes = [last |-> [a \in Addrs |-> "none"], calls |-> {}]

ProxyFrame == UNCHANGED <<rateVars, lastCall, dayAdmits, cyclePc, hrl, schedVars,
                          mainVars, sessVars, retry, captcha, followVars, restVars>>

(* validateProxy's first test: probed within proxyTestInterval;           *)
(* Date.now() is now hours, in milliseconds *)
Fresh(a) == (now - lastProxyTest[a]) * 3600000 < proxyTestInterval

(* validateProxy(proxy): what a call can come to.  "fresh": skipped, true; *)
(* "ok200": a response with status 200, true; "not200": another response,  *)
(* false; "noResponse": invalid object, timeout or error, false.           *)
ProbeOutcomes(isFresh) ==
    IF isFresh THEN {"fresh"} ELSE {"ok200", "not200", "noResponse"}
IsValid(outcome) == outcome \in {"fresh", "ok200"}
Responded(outcome) == outcome \in {"ok200", "not200"}

Range(f) == {f[i] : i \in DOMAIN f}
BlacklistedAddr(bl, a) == \E k \in bl : k.addr = a

(* One validateProxy(proxy) call as it returns: its result, and the        *)
(* outcome of the most recent probe of the address, which is this call's   *)
(* own unless the call skipped the probe                                   *)
ValidateCall(a, outcome) ==
    [addr |-> a, result |-> IsValid(outcome),
     probe |-> IF outcome = "fresh" THEN probes.last[a] ELSE outcome]

(* p is not blacklisted and fewer than TopCount proxies of the list that   *)
(* are not blacklisted have a higher score, the score being the one the    *)
(* sort reads                                                              *)
AmongTop(p, list, scores, bl) ==
    LET sc(q) == Idx(scores[StrKey(q.addr)])
    IN  /\ ~BlacklistedAddr(bl, p.addr)
        /\ Cardinality({i \in DOMAIN list :
                           /\ ~BlacklistedAddr(bl, list[i].addr)
                           /\ sc(list[i]) > sc(p)}) < TopCount

(* The first TopCount entries of [...proxyList].sort by descending score   *)
(* of proxy_address; the sort is stable.                                   *)
TopProxies(list, scores) ==
    LET sc(i) == Idx(scores[StrKey(list[i].addr)])
        before(i) == {j \in DOMAIN list :
                        sc(j) > sc(i) \/ (sc(j) = sc(i) /\ j < i)}
    IN  {list[i] : i \in {i \in DOMAIN list : Cardinality(before(i)) < TopCount}}

(* getNextProxy returns v to its caller; getRandomProxy then copies a      *)
(* proxy into currentProxy and returns currentProxy whatever v was         *)
GnpReturn(v, caller) ==
    /\ gnp' = [pc |-> "idle", caller |-> "none", selected |-> Null, retries |-> 0,
               amongTop |-> FALSE]
    /\ currentProxy' = IF caller = "getRandomProxy" /\ v # Null
                       THEN v ELSE currentProxy
    /\ LET out == IF caller = "getRandomProxy" THEN currentProxy' ELSE v
       IN  lastReturn' = [by |-> caller, value |-> out,
                          blacklisted |-> BlacklistedAddr(blacklistedProxies, out.addr),
                          selected |-> v # Null,
                          amongTop |-> v # Null /\ gnp.amongTop]

(* getNextProxy() up to its first await: an empty list returns null, else  *)
(* one of the top proxies is selected at random                            *)
GnpSelect(list, scores, caller) ==
    IF Len(list) = 0
    THEN GnpReturn(Null, caller)
    ELSE /\ \E p \in TopProxies(list, scores) :
              gnp' = [pc |-> "validate", caller |-> caller, selected |-> p,
                      retries |-> 0,
                      amongTop |-> AmongTop(p, list, scores, blacklistedProxies)]
         /\ UNCHANGED <<currentProxy, lastReturn>>

GetNextProxyCall ==
    /\ gnp.pc = "idle"
    /\ GnpSelect(proxyList, proxyScores, "getNextProxy")
    /\ UNCHANGED <<now, proxyList, proxyScores, blacklistedProxies, lastProxyTest,
                   lastRotation, loads, scoreOps, bgVal, probes>>
    /\ ProxyFrame

(* while (retries < maxRetries): one validateProxy(selectedProxy) *)
GnpValidate ==
    /\ gnp.pc = "validate"
    /\ gnp.retries < maxRetries
    /\ \E outcome \in ProbeOutcomes(Fresh(gnp.selected.addr)) :
          /\ lastProxyTest' = IF Responded(outcome)
                              THEN [lastProxyTest EXCEPT ![gnp.selected.addr] = now]
                              ELSE lastProxyTest
          /\ probes' = [last |-> [probes.last EXCEPT ![gnp.selected.addr] =
                                     ValidateCall(gnp.selected.addr, outcome).probe],
                        calls |-> {ValidateCall(gnp.selected.addr, outcome)}]
          /\ IF IsValid(outcome)
             THEN /\ lastRotation' = now
                  /\ GnpReturn(gnp.selected, gnp.caller)
             ELSE /\ gnp' = [gnp EXCEPT !.retries = @ + 1]
                  /\ UNCHANGED <<lastRotation, currentProxy, lastReturn>>
    /\ UNCHANGED <<now, proxyList, proxyScores, blacklistedProxies, loads,
                   scoreOps, bgVal>>
    /\ ProxyFrame

(* After maxRetries failed validations: the score of the address becomes 0 *)
(* and getNextProxy calls itself                                           *)
GnpGiveUp ==
    /\ gnp.pc = "validate"
    /\ ~(gnp.retries < maxRetries)
    /\ proxyScores' = [proxyScores EXCEPT ![StrKey(gnp.selected.addr)] = "0"]
    /\ GnpSelect(proxyList, proxyScores', gnp.caller)
    /\ UNCHANGED <<now, proxyList, blacklistedProxies, lastProxyTest, lastRotation,
                   loads, scoreOps, bgVal, probes>>
    /\ ProxyFrame

(* markProxySuccess(proxy), proxy being an object of the last fetch *)
MarkProxySuccess(proxy) ==
    /\ gnp.pc = "idle"
    /\ scoreOps < MaxScoreOps
    /\ scoreOps' = scoreOps + 1
    /\ proxyScores' = [proxyScores EXCEPT ![proxy] = Add01(OrOne(@))]
    /\ UNCHANGED <<now, proxyList, blacklistedProxies, lastProxyTest, lastRotation,
                   currentProxy, loads, gnp, bgVal, lastReturn, probes>>
    /\ ProxyFrame

(* markProxyFailure(proxy) *)
MarkProxyFailure(proxy) ==
    /\ gnp.pc = "idle"
    /\ scoreOps < MaxScoreOps
    /\ scoreOps' = scoreOps + 1
    /\ proxyScores' = [proxyScores EXCEPT ![proxy] = Sub02(OrOne(@))]
    /\ IF Le02(proxyScores'[proxy])
       THEN /\ blacklistedProxies' = blacklistedProxies \cup {proxy}
            /\ proxyList' = SelectSeq(proxyList, LAMBDA p : p # proxy)
       ELSE UNCHANGED <<blacklistedProxies, proxyList>>
    /\ UNCHANGED <<now, lastProxyTest, lastRotation, currentProxy, loads, gnp,
                   bgVal, lastReturn, probes>>
    /\ ProxyFrame

(* validateProxies() over the proxies `list` it mapped, fresh being the    *)
(* addresses whose probe was skipped and out the outcome of each probe:    *)
(* every score is updated under the proxy object, then this.proxyList is   *)
(* filtered                                                                *)
ValidateProxiesEffect(list, out) ==
    LET probed == Range(list)
        pos(p) == CHOOSE i \in DOMAIN list : list[i] = p
        scores == [k \in Keys |->
                     IF k \in probed
                     THEN IF IsValid(out[pos(k)]) THEN Add01(proxyScores[k])
                                                  ELSE Sub02(proxyScores[k])
                     ELSE proxyScores[k]]
    IN  /\ proxyScores' = scores
        /\ lastProxyTest' =
               [a \in Addrs |->
                  IF \E i \in DOMAIN list : list[i].addr = a /\ Responded(out[i])
                  THEN now ELSE lastProxyTest[a]]
        /\ probes' =
               [last |-> [a \in Addrs |->
                            IF \E i \in DOMAIN list : list[i].addr = a
                            THEN ValidateCall(a, out[CHOOSE i \in DOMAIN list :
                                                       list[i].addr = a]).probe
                            ELSE probes.last[a]],
                calls |-> {ValidateCall(list[i].addr, out[i]) : i \in DOMAIN list}]
        /\ blacklistedProxies' =
               blacklistedProxies \cup {p \in Range(proxyList) : Le02(scores[p])}
        /\ proxyList' = SelectSeq(proxyList, LAMBDA p : ~Le02(scores[p]))

Outcomes(list, fresh) ==
    {out \in [DOMAIN list -> {"fresh", "ok200", "not200", "noResponse"}] :
        \A i \in DOMAIN list : out[i] \in ProbeOutcomes(list[i].addr \in fresh)}
FreshAddrs == {a \in Addrs : Fresh(a)}

(* await validateProxies(), called directly *)
ValidateProxies ==
    /\ gnp.pc = "idle"
    /\ ~bgVal.running
    /\ scoreOps < MaxScoreOps
    /\ scoreOps' = scoreOps + 1
    /\ \E out \in Outcomes(proxyList, FreshAddrs) :
          ValidateProxiesEffect(proxyList, out)
    /\ UNCHANGED <<now, lastRotation, currentProxy, loads, gnp, bgVal, lastReturn>>
    /\ ProxyFrame

(* The validateProxies call that loadProxies started and did not await     *)
(* completes                                                               *)
BackgroundValidateDone ==
    /\ bgVal.running
    /\ scoreOps < MaxScoreOps
    /\ scoreOps' = scoreOps + 1
    /\ \E out \in Outcomes(bgVal.list, bgVal.fresh) :
          ValidateProxiesEffect(bgVal.list, out)
    /\ bgVal' = [running |-> FALSE, list |-> <<>>, fresh |-> {}]
    /\ UNCHANGED <<now, lastRotation, currentProxy, loads, gnp, lastReturn>>
    /\ ProxyFrame

(* loadProxies(proxies): the list and scores it leaves *)
LoadedList(g) ==
    SelectSeq([a \in Addrs |-> Obj(a, g)],
               LAMBDA p : StrKey(p.addr) \notin blacklistedProxies)
LoadedScores(list) ==
    [k \in Keys |->
       IF k.kind = "address" /\ proxyScores[k] = "undefined"
          /\ \E i \in DOMAIN list : list[i].addr = k.addr
       THEN "1" ELSE proxyScores[k]]

(* getRandomProxy(): fetchProxies returns no record, or the source's       *)
(* records; then loadProxies (which starts validateProxies) and            *)
(* getNextProxy up to its first await                                      *)
GetRandomProxyCall ==
    /\ gnp.pc = "idle"
    /\ \E fetched \in BOOLEAN :
          IF ~fetched
          THEN /\ lastReturn' = [by |-> "getRandomProxy", value |-> Null,
                                 blacklisted |-> FALSE,
                                 selected |-> FALSE, amongTop |-> FALSE]
               /\ UNCHANGED <<proxyList, proxyScores, bgVal, gnp, currentProxy,
                              loads>>
          ELSE LET list == LoadedList(loads') IN
               /\ ~bgVal.running
               /\ loads < MaxLoads
               /\ loads' = loads + 1
               /\ proxyList' = list
               /\ proxyScores' = LoadedScores(list)
               /\ bgVal' = [running |-> TRUE, list |-> list, fresh |-> FreshAddrs]
               /\ GnpSelect(list, proxyScores', "getRandomProxy")
    /\ UNCHANGED <<now, blacklistedProxies, lastProxyTest, lastRotation, scoreOps,
                   probes>>
    /\ ProxyFrame

ProxyTick ==
    /\ now < ProxyMaxNow
    /\ now' = now + 1
    /\ UNCHANGED <<dayAdmits, proxyVars>>
    /\ ProxyFrame

(* the proxy objects a caller marks: those of the last fetch *)
FetchedObjects == {Obj(a, g) : a \in Addrs, g \in {loads} \ {0}}

GnpStep == GnpValidate \/ GnpGiveUp

NextProxy ==
    \/ ProxyTick
    \/ GetRandomProxyCall
    \/ GetNextProxyCall
    \/ GnpValidate
    \/ GnpGiveUp
    \/ \E proxy \in FetchedObjects : MarkProxySuccess(proxy)
    \/ \E proxy \in FetchedObjects : MarkProxyFailure(proxy)
    \/ ValidateProxies
    \/ BackgroundValidateDone

---------------------------------------------------------------------------
(* SessionManager (src/src/session-manager.mjs, the class of lines         *)
(* 154-327).                                                               *)
(*                                                                         *)
(* detectionScore moves in steps of 2 and 0.5: it is kept in halves, so    *)
(* Halves(5) is the score 5.  Times are hours; a cookie's expires (seconds *)
(* in the source) is kept in hours as well, 0 standing for a missing or    *)
(* zero expires and -1 for the -1 Puppeteer gives a session cookie.        *)
Halves(x) == 2 * x
SESSION_EXPIRY_TIME == 2
DetectionThreshold == 5
DetectionIncrement == 2
(* lastCookieRotation is null and no code assigns it: the test of lines    *)
(* 258-261 never fires                                                     *)
lastCookieRotation == 0
cookieRotationInterval == 4

essentialCookies == {"li_at", "JSESSIONID"}
CookieNames == essentialCookies \cup {"lang"}
LinkedInDomain == <<"www", "linkedin", "com">>

(* The cookies a page can have under one name: a valid one, and for li_at  *)
(* also an expired one and one of another site whose domain contains       *)
(* "linkedin.com"                                                          *)
Cookie(name, value, expires, domain) ==
    [name |-> name, value |-> value, expires |-> expires, domain |-> domain]
CookieVariants(name) ==
    IF name = "li_at"
    THEN { Cookie(name, "v", 100, LinkedInDomain),
           Cookie(name, "v", 1, LinkedInDomain),
           Cookie(name, "v", 100, <<"linkedin", "com", "evil", "io">>) }
    ELSE IF name = "JSESSIONID"
    THEN { Cookie(name, "v", 0, LinkedInDomain) }
    ELSE { Cookie(name, "v", 100, LinkedInDomain) }
(* page.cookies(): at most one cookie of each name *)
PageCookies ==
    LET Pick(name) == {{}} \cup {{c} : c \in CookieVariants(name)}
    IN  {a \cup b \cup c : a \in Pick("li_at"), b \in Pick("JSESSIONID"),
                            c \in Pick("lang")}

(* cookie.domain.includes('linkedin.com'), a domain being its labels *)
IncludesLinkedIn(domain) ==
    \E i \in 1..(Len(domain) - 1) : domain[i] = "linkedin" /\ domain[i + 1] = "com"

(* filterValidCookies(cookies) at time t *)
FilterKeeps(cookie, t) ==
    /\ ~(cookie.expires # 0 /\ cookie.expires < t)
    /\ ~(cookie.name = "" \/ cookie.value = "")
    /\ IncludesLinkedIn(cookie.domain)
(* A mutation of the filter: of several cookies it would keep it drops one *)
FilterValidCookiesDropping(cookies, t) ==
    LET kept == {c \in cookies : FilterKeeps(c, t)}
    IN  IF Cardinality(kept) > 1
        THEN kept \ {CHOOSE c \in kept : c.name # "li_at"}
        ELSE kept
FilterValidCookies(cookies, t) == {c \in cookies : FilterKeeps(c, t)}

NoSessionCall ==
    [op |-> "none", result |-> "none", at |-> 0, cookies |-> {}, indicator |-> FALSE,
     scoreBefore |-> 0, scoreAfter |-> 0, startBefore |-> 0, wrote |-> FALSE,
     fileBefore |-> {}]

InitSession ==
    /\ sessionStartTime = 0
    /\ detectionScore = 0
    /\ cookiesFile = [exists |-> FALSE, cookies |-> {}]
    /\ lastSession = NoSessionCall

SessFrame == UNCHANGED <<rateVars, lastCall, dayAdmits, cyclePc, hrl, schedVars,
                         mainVars, proxyVars, retry, captcha, followVars, restVars>>

(* What validateSession returns once page.content() showed no indicator *)
ValidateAfterContent(cookies) ==
    IF \E name \in essentialCookies : ~\E c \in cookies : c.name = name
    THEN FALSE
    ELSE IF sessionStartTime # 0 /\ now - sessionStartTime > SESSION_EXPIRY_TIME
    THEN FALSE
    ELSE IF lastCookieRotation # 0
            /\ now - lastCookieRotation > cookieRotationInterval
    THEN FALSE
    ELSE IF detectionScore >= Halves(DetectionThreshold)
    THEN FALSE
    ELSE TRUE

(* validateSession(page): indicator tells whether page.content() holds one *)
(* of BOT_DETECTION_INDICATORS, cookies is what page.cookies() returns,    *)
(* throws whether one of the two page calls rejects                        *)
ValidateSession(indicator, cookies, throws) ==
    LET record(result, score) ==
            [op |-> "validateSession", result |-> result, at |-> now,
             cookies |-> cookies, indicator |-> indicator,
             scoreBefore |-> detectionScore, scoreAfter |-> score,
             startBefore |-> sessionStartTime, wrote |-> FALSE,
             fileBefore |-> {}]
    IN
    /\ IF throws
       THEN /\ ~indicator
            /\ detectionScore' = detectionScore
            /\ lastSession' = record("throws", detectionScore)
       ELSE IF indicator
       THEN /\ detectionScore < Halves(MaxDetectionScore)
            /\ detectionScore' = detectionScore + Halves(DetectionIncrement)
            /\ lastSession' = record("false", detectionScore')
       ELSE IF ValidateAfterContent(cookies)
       THEN /\ detectionScore' = IF detectionScore > 0
                                 THEN Max(0, detectionScore - 1)
                                 ELSE detectionScore
            /\ lastSession' = record("true", detectionScore')
       ELSE /\ detectionScore' = detectionScore
            /\ lastSession' = record("false", detectionScore)
    /\ UNCHANGED <<now, sessionStartTime, cookiesFile>>
    /\ SessFrame

(* saveCookies(page); writeFails: fs.writeFile rejects *)
SaveCookies(cookies, writeFails) ==
    LET validCookies == FilterValidCookies(cookies, now)
        record(result, wrote) ==
            [op |-> "saveCookies", result |-> result, at |-> now,
             cookies |-> cookies, indicator |-> FALSE,
             scoreBefore |-> detectionScore, scoreAfter |-> detectionScore,
             startBefore |-> sessionStartTime, wrote |-> wrote,
             fileBefore |-> cookiesFile.cookies]
    IN
    /\ IF Cardinality(validCookies) = 0 \/ writeFails
       THEN /\ lastSession' = record("throws", FALSE)
            /\ UNCHANGED <<cookiesFile, sessionStartTime>>
       ELSE /\ cookiesFile' = [exists |-> TRUE, cookies |-> validCookies]
            /\ sessionStartTime' = now
            /\ lastSession' = record("saved", TRUE)
    /\ UNCHANGED <<now, detectionScore>>
    /\ SessFrame

SessTick ==
    /\ now < SessMaxNow
    /\ now' = now + 1
    /\ UNCHANGED <<dayAdmits, sessVars>>
    /\ SessFrame

(* page.cookies() is not reached when page.content() rejects or shows an   *)
(* indicator                                                               *)
NextSession ==
    \/ SessTick
    \/ ValidateSession(FALSE, {}, TRUE)
    \/ ValidateSession(TRUE, {}, FALSE)
    \/ \E cookies \in PageCookies : ValidateSession(FALSE, cookies, FALSE)
    \/ \E cookies \in PageCookies, writeFails \in BOOLEAN :
          SaveCookies(cookies, writeFails)

---------------------------------------------------------------------------
(* The error handler (the code that follows the text of src/README.md).    *)
(*                                                                         *)
(* A message is the sequence of its words, and so is a pattern:            *)
(* errorMessage.includes(pattern) is "the words of pattern occur, in a     *)
(* row, in errorMessage".                                                  *)
SILENT_ERRORS == {
    <<"net::ERR_FAILED">>,
    <<"net::ERR_CONNECTION_TIMED_OUT">>,
    <<"net::ERR_CONNECTION_RESET">>,
    <<"net::ERR_CONNECTION_CLOSED">>,
    <<"net::ERR_CONNECTION_REFUSED">>,
    <<"net::ERR_NETWORK_CHANGED">>,
    <<"net::ERR_INTERNET_DISCONNECTED">>,
    <<"net::ERR_ABORTED">>,
    <<"net::ERR_EMPTY_RESPONSE">>,
    <<"net::ERR_NAME_NOT_RESOLVED">>,
    <<"net::ERR_ADDRESS_UNREACHABLE">>,
    <<"the", "server", "responded", "with", "a", "status", "of", "400">>,
    <<"the", "server", "responded", "with", "a", "status", "of", "429">>,
    <<"the", "server", "responded", "with", "a", "status", "of", "403">>,
    <<"the", "server", "responded", "with", "a", "status", "of", "404">>,
    <<"the", "server", "responded", "with", "a", "status", "of", "500">>,
    <<"the", "server", "responded", "with", "a", "status", "of", "502">>,
    <<"the", "server", "responded", "with", "a", "status", "of", "503">>,
    <<"the", "server", "responded", "with", "a", "status", "of", "504">>,
    <<"Error", "400">>,
    <<"Bad", "Request">>,
    <<"status", "of", "400">>,
    <<"status:", "400">>,
    <<"ERR_TOO_MANY_REQUESTS">>,
    <<"ERR_RATE_LIMITED">>,
    <<"Too", "Many", "Requests">>,
    <<"Rate", "limit", "exceeded">>,
    <<"malformed", "JSON", "response">>,
    <<"Failed", "to", "load", "resource">>,
    <<"Navigation", "timeout">>,
    <<"TimeoutError">>,
    <<"Requesting", "main", "frame", "too", "early">>,
    <<"Protocol", "error">>,
    <<"Target", "closed">>,
    <<"ERR_BLOCKED_BY_CLIENT">>,
    <<"ERR_NETWORK_ACCESS_DENIED">> }

Includes(message, pattern) ==
    \E i \in 0..(Len(message) - Len(pattern)) :
        SubSeq(message, i + 1, i + Len(pattern)) = pattern

(* isSilentError(errorMessage) *)
IsSilentError(errorMessage) ==
    \E pattern \in SILENT_ERRORS : Includes(errorMessage, pattern)

(* The two ways the catch of withRetry treats a failure: logged at debug   *)
(* level when isSilentError, at warn level otherwise; both are retried     *)
Classify(errorMessage) ==
    IF IsSilentError(errorMessage) THEN "Silent" ELSE "Transient"

(* The messages an operation fails with *)
Messages ==
    { <<"net::ERR_CONNECTION_RESET", "at", "https://www.linkedin.com/feed/">>,
      <<"status", "of", "429">>,
      <<"the", "server", "responded", "with", "a", "status", "of", "429">>,
      <<"Too", "Many", "Requests">>,
      <<"Rate", "limit", "exceeded">>,
      <<"Navigation", "timeout", "of", "30000", "ms", "exceeded">>,
      <<"unknown", "xyz", "failure">> }

RetryMaxRetries == 10
initialDelay == 8000
maxDelay == 120000

(* initialDelay * Math.pow(2.5, k): each factor 2.5 is * 5 / 2, exact in   *)
(* binary64 and an integer while the product is under maxDelay; a product  *)
(* that reached maxDelay only grows, and is not computed further           *)
RECURSIVE GrownDelay(_)
GrownDelay(k) ==
    IF k = 0 THEN initialDelay
    ELSE LET d == GrownDelay(k - 1)
         IN  IF d >= maxDelay THEN d ELSE (d * 5) \div 2

(* calculateDelay(attempt) *)
calculateDelay(attempt) == Min(GrownDelay(attempt - 1), maxDelay)

NoError == [message |-> <<>>, thrownBy |-> 0]

(* a catch that keeps the first error *)
CatchErrorKeepFirst(lastError, error) == IF lastError = NoError THEN error ELSE lastError
(* lastError = error *)
CatchError(lastError, error) == error

(* a delay that does not grow *)
RetryDelayFlat(attempt) == initialDelay
(* const delay = calculateDelay(attempt) *)
RetryDelay(attempt) == calculateDelay(attempt)

InitRetry ==
    retry = [pc |-> "idle", attempt |-> 0, lastError |-> NoError,
             calls |-> 0, sleeps |-> <<>>, rateLimitedAt |-> 0,
             silent |-> "none", lastThrown |-> NoError,
             outcome |-> NoError, value |-> 0]

RetryFrame == UNCHANGED <<now, rateVars, lastCall, dayAdmits, cyclePc, hrl, schedVars,
                          mainVars, proxyVars, sessVars, captcha, followVars, restVars>>

(* withRetry(operation, operationName) is called: attempt = 1 *)
WithRetryCall ==
    /\ retry.pc \in {"idle", "returned", "thrown"}
    /\ retry' = [pc |-> "calling", attempt |-> 1, lastError |-> NoError,
                 calls |-> 0, sleeps |-> <<>>, rateLimitedAt |-> 0,
                 silent |-> "none", lastThrown |-> NoError,
             outcome |-> NoError, value |-> 0]
    /\ RetryFrame

(* return await operation(): the operation fulfils; its value is named     *)
(* after the invocation that produced it                                   *)
OperationReturns ==
    /\ retry.pc = "calling"
    /\ retry' = [retry EXCEPT !.pc = "returned", !.calls = @ + 1,
                              !.value = retry.calls + 1]
    /\ RetryFrame

(* A message that signals rate limiting *)
SignalsRateLimit(message) ==
    \/ \E i \in DOMAIN message : message[i] \in {"429", "ERR_TOO_MANY_REQUESTS",
                                                  "ERR_RATE_LIMITED"}
    \/ Includes(message, <<"Too", "Many", "Requests">>)
    \/ Includes(message, <<"Rate", "limit", "exceeded">>)

(* operation() rejects with an Error of this message: the catch block, up  *)
(* to the sleep or the break, after which lastError is thrown (outcome).   *)
(* lastThrown is the error this invocation rejected with, rateLimitedAt    *)
(* the first invocation that failed with a message signalling rate         *)
(* limiting                                                                *)
OperationThrows(message) ==
    LET error == [message |-> message, thrownBy |-> retry.calls + 1]
        FirstRateLimit(m) == IF retry.rateLimitedAt = 0 /\ SignalsRateLimit(m)
                             THEN retry.calls + 1 ELSE retry.rateLimitedAt
        caught == CatchError(retry.lastError, error)
    IN
    /\ retry.pc = "calling"
    /\ IF retry.attempt = RetryMaxRetries
       THEN retry' = [retry EXCEPT !.pc = "thrown", !.calls = @ + 1,
                                   !.lastError = caught,
                                   !.rateLimitedAt = FirstRateLimit(message),
                                   !.silent = Classify(message),
                                   !.lastThrown = error,
                                   !.outcome = caught]
       ELSE retry' = [retry EXCEPT !.pc = "sleeping", !.calls = @ + 1,
                                   !.lastError = caught,
                                   !.rateLimitedAt = FirstRateLimit(message),
                                   !.silent = Classify(message),
                                   !.lastThrown = error,
                                   !.sleeps = Append(@, RetryDelay(retry.attempt))]
    /\ RetryFrame

(* the setTimeout of the catch block fires: attempt++ *)
RetrySleepDone ==
    /\ retry.pc = "sleeping"
    /\ retry' = [retry EXCEPT !.pc = "calling", !.attempt = @ + 1]
    /\ RetryFrame

NextRetry ==
    \/ WithRetryCall
    \/ OperationReturns
    \/ \E message \in Messages : OperationThrows(message)
    \/ RetrySleepDone

---------------------------------------------------------------------------
(* CaptchaSolver.submitAndGetSolution (src/src/captcha-solver.mjs, lines   *)
(* 375-431).                                                               *)
maxAttempts == 30

(* the statuses getTaskResult answers with; "undefined" is an answer with  *)
(* no status, as an error answer is                                        *)
TaskStatuses == {"ready", "processing", "failed", "undefined"}

(* a loop that polls on after any status but ready *)
PollAgainUnlessReady(status) == status # "ready"
(* the branch of status 'processing': the loop goes on *)
PollAgain(status) == status = "processing"

IdleCaptcha ==
    [pc |-> "idle", attempts |-> 0, polls |-> 0, lastStatus |-> "none",
     endedAt |-> 0, result |-> "none"]

InitCaptcha == captcha = IdleCaptcha

CaptchaFrame == UNCHANGED <<now, rateVars, lastCall, dayAdmits, cyclePc, hrl,
                            schedVars, mainVars, proxyVars, sessVars, retry,
                            followVars, restVars>>

(* submitAndGetSolution(task) up to the loop: createTask answers with a    *)
(* taskId, or without one, or the fetch rejects                            *)
CaptchaCreateTask(answer) ==
    /\ captcha.pc \in {"idle", "done"}
    /\ captcha' = IF answer = "taskId"
                  THEN [IdleCaptcha EXCEPT !.pc = "polling"]
                  ELSE [IdleCaptcha EXCEPT !.pc = "done", !.result = "null"]
    /\ CaptchaFrame

(* One turn of the loop: wait 10 s, getTaskResult answers with status, a   *)
(* ready answer carrying solution.token; endedAt is the first poll whose   *)
(* status was neither ready nor processing                                 *)
CaptchaPoll(status) ==
    /\ captcha.pc = "polling"
    /\ captcha.attempts < maxAttempts
    /\ LET polled == [captcha EXCEPT
                        !.polls = @ + 1, !.lastStatus = status,
                        !.endedAt = IF @ = 0 /\ status \notin {"ready", "processing"}
                                    THEN captcha.polls + 1 ELSE @]
       IN  captcha' =
             IF status = "ready"
             THEN [polled EXCEPT !.pc = "done", !.result = "token"]
             ELSE IF PollAgain(status)
             THEN [polled EXCEPT !.attempts = @ + 1]
             ELSE [polled EXCEPT !.pc = "done", !.result = "null"]
    /\ CaptchaFrame

(* the fetch of a poll, or its json(), rejects: the catch returns null *)
CaptchaPollThrows ==
    /\ captcha.pc = "polling"
    /\ captcha.attempts < maxAttempts
    /\ captcha' = [captcha EXCEPT !.pc = "done", !.result = "null",
                                  !.polls = @ + 1, !.lastStatus = "throws"]
    /\ CaptchaFrame

(* the loop ends with attempts = maxAttempts: 'Captcha solution timeout' *)
CaptchaTimeout ==
    /\ captcha.pc = "polling"
    /\ ~(captcha.attempts < maxAttempts)
    /\ captcha' = [captcha EXCEPT !.pc = "done", !.result = "null"]
    /\ CaptchaFrame

NextCaptcha ==
    \/ \E answer \in {"taskId", "noTaskId", "throws"} : CaptchaCreateTask(answer)
    \/ \E status \in TaskStatuses : CaptchaPoll(status)
    \/ CaptchaPollThrows
    \/ CaptchaTimeout

---------------------------------------------------------------------------
(* Follow-up messages: sendOneFollowUpMessage of linkedin-bot.mjs, which   *)
(* main calls in its second loop, and processFollowUpMessages of           *)
(* task-scheduler.mjs, which cron starts every hour.  A profile stands for *)
(* its profileUrl.  The account's connections only grow.                   *)
Users == 1..NumUsers
NoSend == [profile |-> 0, by |-> "none", connected |-> FALSE]
IdleSof == [pc |-> "idle", pending |-> <<>>, messaged |-> <<>>, cards |-> {}]
IdlePfm == [pc |-> "idle", pending |-> <<>>, messaged |-> <<>>]

InitFollow ==
    /\ messagedFile = <<>>
    /\ connections = {}
    /\ sof = IdleSof
    /\ pfm = IdlePfm
    /\ lastSend = NoSend

FollowFrame == UNCHANGED <<cyclePc, hrl, queueFile, task, overlaps, mainVars,
                           proxyVars, sessVars, retry, captcha, restVars>>

(* A mutation of the messaged test: no profile is found in messaged *)
InMessagedNever(messaged, profile) == FALSE
(* messaged.find(m => m.profileUrl === c.profileUrl) *)
InMessaged(messaged, profile) == \E i \in DOMAIN messaged : messaged[i] = profile

(* sendOneConnectionRequest's bookkeeping: the profile is pushed to        *)
(* pending.json with the date of the day, unless it is there already       *)
RecordPending(profile) ==
    /\ ~\E i \in DOMAIN pendingFile : pendingFile[i].profile = profile
    /\ pendingFile' = Append(pendingFile,
                             [profile |-> profile, date |-> 24 * DateString(now)])
    /\ UNCHANGED <<now, rateVars, lastCall, dayAdmits, followVars>>
    /\ FollowFrame

(* The owner of the profile accepts a connection request *)
Accept(profile) ==
    /\ profile \notin connections
    /\ connections' = connections \cup {profile}
    /\ UNCHANGED <<now, rateVars, lastCall, dayAdmits, pendingFile, messagedFile,
                   sof, pfm, lastSend>>
    /\ FollowFrame

(* pending.filter(c => c.date < yesterday && !messaged.find(...)), the     *)
(* dates compared as 'YYYY-MM-DD' strings                                  *)
ConnectionsToMessage(pending, messaged, t) ==
    SelectSeq(pending, LAMBDA c : /\ DateString(c.date) < DateString(t - 24)
                                  /\ ~InMessaged(messaged, c.profile))

(* sendOneFollowUpMessage(page) up to its page.goto: the two files are     *)
(* loaded; nothing to message returns false                                *)
SofLoad ==
    /\ sof.pc = "idle"
    /\ sof' = IF Len(ConnectionsToMessage(pendingFile, messagedFile, now)) = 0
              THEN IdleSof
              ELSE [pc |-> "goto", pending |-> pendingFile,
                    messaged |-> messagedFile, cards |-> {}]
    /\ UNCHANGED <<now, rateVars, lastCall, dayAdmits, pendingFile, messagedFile,
                   connections, pfm, lastSend>>
    /\ FollowFrame

(* The connections page is opened and its .mn-connection-card elements are *)
(* read: cards of connections when it loaded, none when it did not         *)
SofScrape ==
    /\ sof.pc = "goto"
    /\ \E loaded \in BOOLEAN : \E cards \in SUBSET connections :
          /\ ~loaded => cards = {}
          /\ sof' = [sof EXCEPT !.pc = "loop", !.cards = cards]
    /\ UNCHANGED <<now, rateVars, lastCall, dayAdmits, pendingFile, messagedFile,
                   connections, pfm, lastSend>>
    /\ FollowFrame

(* A mutation of the card test: every pending profile passes *)
IsConnectionCardAny(cards, profile) == TRUE
(* connections.find(c => c.profileUrl === user.profileUrl) *)
IsConnectionCard(cards, profile) == profile \in cards

(* for (const user of pending): the first user with a connection card and  *)
(* no entry in messaged gets the message and is pushed to messaged.json;   *)
(* sent is FALSE when one of the page calls of the sending rejects         *)
SofSend ==
    /\ sof.pc = "loop"
    /\ LET idx == {i \in DOMAIN sof.pending :
                     /\ IsConnectionCard(sof.cards, sof.pending[i].profile)
                     /\ ~InMessaged(sof.messaged, sof.pending[i].profile)}
       IN  IF idx = {}
           THEN UNCHANGED <<messagedFile, lastSend>>
           ELSE LET first == CHOOSE i \in idx : \A j \in idx : i <= j
                    user == sof.pending[first].profile
                IN  \E sent \in BOOLEAN :
                       IF sent
                       THEN /\ messagedFile' = Append(sof.messaged, user)
                            /\ lastSend' = [profile |-> user,
                                            by |-> "sendOneFollowUpMessage",
                                            connected |-> user \in connections]
                       ELSE UNCHANGED <<messagedFile, lastSend>>
    /\ sof' = IdleSof
    /\ UNCHANGED <<now, rateVars, lastCall, dayAdmits, pendingFile, connections, pfm>>
    /\ FollowFrame

(* pending.filter(conn => dayjs(conn.date).isBefore(yesterday) && ...) *)
NeedsFollowUp(pending, messaged, t) ==
    SelectSeq(pending, LAMBDA c : /\ c.date < t - 24
                                  /\ ~InMessaged(messaged, c.profile))

(* processFollowUpMessages() up to its rate-limit check *)
PfmLoad ==
    /\ pfm.pc = "idle"
    /\ pfm' = IF Len(NeedsFollowUp(pendingFile, messagedFile, now)) = 0
              THEN IdlePfm
              ELSE [pc |-> "check", pending |-> pendingFile,
                    messaged |-> messagedFile]
    /\ UNCHANGED <<now, rateVars, lastCall, dayAdmits, pendingFile, messagedFile,
                   connections, sof, lastSend>>
    /\ FollowFrame

(* await rateLimiter.checkMessageLimit() and what follows it: on true the  *)
(* first connection that needs a follow-up is pushed to messaged.json; on  *)
(* false the function returns; a rejection is caught and logged            *)
PfmCheck ==
    /\ pfm.pc = "check"
    /\ CheckMessageLimit
    /\ IF lastCall'.result = "true"
       THEN LET connection == Head(NeedsFollowUp(pfm.pending, pfm.messaged, now))
            IN  /\ messagedFile' = Append(pfm.messaged, connection.profile)
                /\ lastSend' = [profile |-> connection.profile,
                                by |-> "processFollowUpMessages",
                                connected |-> connection.profile \in connections]
       ELSE UNCHANGED <<messagedFile, lastSend>>
    /\ pfm' = IdlePfm
    /\ UNCHANGED <<now, dayAdmits, pendingFile, connections, sof>>
    /\ FollowFrame

(* A day passes *)
FollowTick ==
    /\ DateString(now + 24) <= FollowMaxDay
    /\ now' = now + 24
    /\ dayAdmits' = 0
    /\ UNCHANGED <<rateVars, lastCall, pendingFile, followVars>>
    /\ FollowFrame

NextFollow ==
    \/ FollowTick
    \/ \E profile \in Users : RecordPending(profile)
    \/ \E profile \in Users : Accept(profile)
    \/ SofLoad
    \/ SofScrape
    \/ SofSend
    \/ PfmLoad
    \/ PfmCheck

---------------------------------------------------------------------------
(* Login retries: handleLoginRetry and resetLoginRetries of                *)
(* session-manager.mjs.  loginRetries is a field of the SessionManager: it *)
(* lives on from one handleLoginRetry call to the next.  No caller is in   *)
(* the repository; the calls are made one after the other.                 *)
MAX_LOGIN_RETRIES == 3
IdleLogin == [pc |-> "idle", invocations |-> 0, outcomes |-> <<>>, truthy |-> FALSE,
              result |-> "none", calls |-> 0]

InitLogin ==
    /\ loginRetries = 0
    /\ login = IdleLogin

LoginFrame == UNCHANGED <<now, rateVars, lastCall, dayAdmits, cyclePc, hrl, schedVars,
                          mainVars, proxyVars, sessVars, retry, captcha, followVars,
                          qmVars, req>>

(* A mutation of the loop condition: the loop always goes on *)
LoginRetriesLeftAlways(n) == TRUE
(* while (this.loginRetries < MAX_LOGIN_RETRIES) *)
LoginRetriesLeft(n) == n < MAX_LOGIN_RETRIES

(* handleLoginRetry(page, username, password, loginFunction) is called *)
HlrBegin ==
    /\ login.pc = "idle"
    /\ login.calls < MaxLoginCalls
    /\ login' = [login EXCEPT !.pc = "while", !.invocations = 0, !.outcomes = <<>>,
                              !.truthy = FALSE, !.result = "running"]
    /\ UNCHANGED loginRetries
    /\ LoginFrame

(* The loop condition: a pass of the loop starts, or the function logs     *)
(* 'Max login retries exceeded' and returns false                          *)
HlrWhile ==
    /\ login.pc = "while"
    /\ login' = IF LoginRetriesLeft(loginRetries)
                THEN [login EXCEPT !.pc = "login"]
                ELSE [login EXCEPT !.pc = "idle", !.result = "false",
                                   !.calls = @ + 1]
    /\ UNCHANGED loginRetries
    /\ LoginFrame

(* await loginFunction(page, username, password) settles: a truthy value   *)
(* resets loginRetries and returns true; a falsy value or a rejection      *)
(* (caught and logged) counts one retry                                    *)
HlrLogin(outcome) ==
    /\ login.pc = "login"
    /\ IF outcome = "truthy"
       THEN /\ loginRetries' = 0
            /\ login' = [login EXCEPT !.pc = "idle", !.invocations = @ + 1,
                                      !.outcomes = Append(@, outcome),
                                      !.truthy = TRUE, !.result = "true",
                                      !.calls = @ + 1]
       ELSE /\ loginRetries' = loginRetries + 1
            /\ login' = [login EXCEPT !.invocations = @ + 1,
                            !.outcomes = Append(@, outcome),
                            !.pc = IF loginRetries + 1 < MAX_LOGIN_RETRIES
                                   THEN "delay" ELSE "while"]
    /\ LoginFrame

(* The RETRY_DELAY timer fires *)
HlrDelay ==
    /\ login.pc = "delay"
    /\ login' = [login EXCEPT !.pc = "while"]
    /\ UNCHANGED loginRetries
    /\ LoginFrame

(* resetLoginRetries(), between two handleLoginRetry calls *)
ResetLoginRetries ==
    /\ login.pc = "idle"
    /\ loginRetries # 0
    /\ loginRetries' = 0
    /\ UNCHANGED login
    /\ LoginFrame

NextLogin ==
    \/ HlrBegin
    \/ HlrWhile
    \/ \E outcome \in {"truthy", "falsy", "throws"} : HlrLogin(outcome)
    \/ HlrDelay
    \/ ResetLoginRetries

---------------------------------------------------------------------------
(* QueueManager: addToQueue, addBatchToQueue and markProcessed.  A profile *)
(* stands for its profileUrl.  A call reads queue.json, then               *)
(* processed.json, and writes queue.json last; other calls may run between *)
(* these awaits.                                                           *)
AddCallers == 1..2
Batches == {b \in UNION {[1..n -> Users] : n \in 1..MaxBatch} : TRUE}
IdleAdd == [pc |-> "idle", op |-> "none", profiles |-> <<>>, queue |-> <<>>,
            queueBefore |-> <<>>, processedBefore |-> <<>>, added |-> 0,
            result |-> "none"]

InitQueue ==
    /\ qmQueue = <<>>
    /\ processedFile = <<>>
    /\ adds = [c \in AddCallers |-> IdleAdd]

QueueFrame == UNCHANGED <<now, rateVars, lastCall, dayAdmits, cyclePc, hrl, schedVars,
                          mainVars, proxyVars, sessVars, retry, captcha, followVars,
                          loginVars, req>>

(* A mutation of the test: processed.json is not looked at *)
IsKnownQueuedOnly(queue, processed, profile) ==
    \E i \in DOMAIN queue : queue[i] = profile
(* isQueued || isProcessed *)
IsKnown(queue, processed, profile) ==
    \/ \E i \in DOMAIN queue : queue[i] = profile
    \/ \E i \in DOMAIN processed : processed[i] = profile

(* The loop of addBatchToQueue: each profile is tested against the queue   *)
(* as it has grown so far                                                  *)
RECURSIVE BatchPush(_, _, _)
BatchPush(queue, processed, profiles) ==
    IF profiles = <<>>
    THEN queue
    ELSE BatchPush(IF IsKnown(queue, processed, Head(profiles))
                   THEN queue ELSE Append(queue, Head(profiles)),
                   processed, Tail(profiles))

(* addToQueue(profile) / addBatchToQueue(profiles) is called and its       *)
(* loadJson(this.queueFile) reads the file                                 *)
AqLoadQueue(c, op, profiles) ==
    /\ adds[c].pc = "idle"
    /\ op = "addToQueue" => Len(profiles) = 1
    /\ adds' = [adds EXCEPT ![c] =
                  [IdleAdd EXCEPT !.pc = "loadProcessed", !.op = op,
                                  !.profiles = profiles, !.queue = qmQueue,
                                  !.queueBefore = qmQueue, !.result = "running"]]
    /\ UNCHANGED <<qmQueue, processedFile>>
    /\ QueueFrame

(* loadJson(this.processedFile) reads the file; the tests are made and the *)
(* new entries pushed to the call's own array; with nothing to add the     *)
(* call returns false, or the count 0                                      *)
AqLoadProcessed(c) ==
    /\ adds[c].pc = "loadProcessed"
    /\ LET a == adds[c]
           queue == BatchPush(a.queue, processedFile, a.profiles)
           addedCount == Len(queue) - Len(a.queue)
       IN  adds' = [adds EXCEPT ![c] =
                      IF addedCount = 0
                      THEN [a EXCEPT !.pc = "idle", !.processedBefore = processedFile,
                                     !.result = "false"]
                      ELSE [a EXCEPT !.pc = "save", !.processedBefore = processedFile,
                                     !.queue = queue, !.added = addedCount]]
    /\ UNCHANGED <<qmQueue, processedFile>>
    /\ QueueFrame

(* saveJson(this.queueFile, queue) writes the call's array and the call    *)
(* returns true, or the count; a failed write is caught: false, or 0       *)
AqSave(c, writeFails) ==
    /\ adds[c].pc = "save"
    /\ IF writeFails
       THEN /\ adds' = [adds EXCEPT ![c].pc = "idle", ![c].added = 0,
                                    ![c].result = "false"]
            /\ UNCHANGED qmQueue
       ELSE /\ adds' = [adds EXCEPT ![c].pc = "idle", ![c].result = "true"]
            /\ qmQueue' = adds[c].queue
    /\ UNCHANGED processedFile
    /\ QueueFrame

(* markProcessed(profile), while no other call is in flight *)
MarkProcessed(profile) ==
    /\ \A c \in AddCallers : adds[c].pc = "idle"
    /\ Len(processedFile) < MaxProcessed
    /\ processedFile' = Append(processedFile, profile)
    /\ UNCHANGED <<qmQueue, adds>>
    /\ QueueFrame

(* The calls are made one at a time *)
NextQueueSeq ==
    \/ \E profile \in Users : AqLoadQueue(1, "addToQueue", <<profile>>)
    \/ \E profiles \in Batches : AqLoadQueue(1, "addBatchToQueue", profiles)
    \/ AqLoadProcessed(1)
    \/ \E writeFails \in BOOLEAN : AqSave(1, writeFails)
    \/ \E profile \in Users : MarkProcessed(profile)

(* addToQueue calls overlap *)
NextQueue ==
    \/ \E c \in AddCallers : \E profile \in Users :
          AqLoadQueue(c, "addToQueue", <<profile>>)
    \/ \E c \in AddCallers : AqLoadProcessed(c)
    \/ \E c \in AddCallers : \E writeFails \in BOOLEAN : AqSave(c, writeFails)
    \/ \E profile \in Users : MarkProcessed(profile)

---------------------------------------------------------------------------
(* The request handler that setupRequestInterception registers.  A request *)
(* is resolved by a request.continue() or request.abort() that succeeds; a *)
(* continue() that rejects leaves it unresolved, and the handler sorts the *)
(* rejection by its message.  The timers of the handler always fire.       *)
retryCount == 7
ResourceKinds == {"essential", "resource", "document"}
ErrorKinds == {"400", "429", "net::", "other"}
IdleReq == [pc |-> "idle", kind |-> "none", attempt |-> 0, error |-> "none",
            resolution |-> "none", resolutions |-> 0, requests |-> 0]

InitRequest == req = IdleReq

RequestFrame == UNCHANGED <<now, rateVars, lastCall, dayAdmits, cyclePc, hrl, schedVars,
                            mainVars, proxyVars, sessVars, retry, captcha, followVars,
                            loginVars, qmVars>>

(* page emits 'request': the throttling delays pass and the retry loop is  *)
(* entered with attempt = 1                                                *)
ReqArrive(kind) ==
    /\ req.pc \in {"idle", "returned"}
    /\ req.requests < MaxRequests
    /\ req' = [IdleReq EXCEPT !.pc = "try", !.kind = kind, !.attempt = 1,
                              !.requests = req.requests + 1]
    /\ RequestFrame

(* One pass of the try block: an api/xhr/fetch request is continued; an    *)
(* image, media, font or other resource is continued with chance 0.3 or    *)
(* 0.1 and aborted otherwise; any other request is continued with the new  *)
(* headers.  A success ends the handler (return or break); a rejection     *)
(* goes to the catch block                                                 *)
ReqTry(load, outcome) ==
    /\ req.pc = "try"
    /\ req.kind # "resource" => load
    /\ req' = IF outcome = "ok"
              THEN [req EXCEPT !.pc = "returned",
                               !.resolution = IF load THEN "continued" ELSE "aborted",
                               !.resolutions = @ + 1]
              ELSE [req EXCEPT !.pc = "catch", !.error = outcome]
    /\ RequestFrame

(* The catch block, after its delay.  400: attempt++, an abort once the    *)
(* attempts are used up, continue.  429: attempt++, continue.  net::       *)
(* attempt++ and continue while attempts are left.  Everything else, and   *)
(* net:: without attempts left: abort and break.  `continue` goes to the   *)
(* loop condition attempt <= retryCount, which ends the handler when it    *)
(* is false                                                                *)
ReqCatch ==
    /\ req.pc = "catch"
    /\ LET attempt == req.attempt + 1
           aborted == [req EXCEPT !.pc = "returned", !.resolution = "aborted",
                                  !.resolutions = @ + 1]
       IN  req' = CASE req.error = "400" ->
                         IF attempt > retryCount
                         THEN [aborted EXCEPT !.attempt = attempt]
                         ELSE [req EXCEPT !.pc = "try", !.attempt = attempt]
                    [] req.error = "429" ->
                         IF attempt <= retryCount
                         THEN [req EXCEPT !.pc = "try", !.attempt = attempt]
                         ELSE [req EXCEPT !.pc = "returned", !.attempt = attempt]
                    [] req.error = "net::" ->
                         IF attempt <= retryCount
                         THEN [req EXCEPT !.pc = "try", !.attempt = attempt]
                         ELSE [aborted EXCEPT !.attempt = attempt]
                    [] OTHER -> aborted
    /\ RequestFrame

NextRequest ==
    \/ \E kind \in ResourceKinds : ReqArrive(kind)
    \/ \E load \in BOOLEAN : \E outcome \in {"ok"} \cup ErrorKinds : ReqTry(load, outcome)
    \/ ReqCatch

Init ==
    /\ InitRate /\ InitSched /\ InitMain /\ InitProxy /\ InitSession /\ InitRetry
    /\ InitCaptcha /\ InitFollow /\ InitLogin /\ InitQueue /\ InitRequest
SpecRate == Init /\ [][NextRate]_vars
SpecSched == Init /\ [][NextSched]_vars
SpecCooldown == Init /\ [][NextCooldown]_vars
(* main runs on: the event loop resumes it after every await *)
SpecMain == Init /\ [][NextMain]_vars /\ WF_vars(NextMain)
(* a getNextProxy call in flight runs on: its awaits (the probe, bounded   *)
(* by validationTimeout, and the one-second wait) always resolve           *)
SpecProxy == Init /\ [][NextProxy]_vars /\ WF_vars(GnpStep)
SpecSession == Init /\ [][NextSession]_vars
(* validateSession is called again and again on a page without an         *)
(* indicator whose cookies include the essential ones                      *)
CleanCheck ==
    \E cookies \in PageCookies :
        /\ \A name \in essentialCookies : \E c \in cookies : c.name = name
        /\ ValidateSession(FALSE, cookies, FALSE)
SpecSessionLive == Init /\ [][NextSession]_vars /\ WF_vars(CleanCheck)
SpecFollowUp == Init /\ [][NextFollow]_vars
SpecMove == Init /\ [][NextMove]_vars
SpecLogin == Init /\ [][NextLogin]_vars
SpecQueueSeq == Init /\ [][NextQueueSeq]_vars
SpecQueue == Init /\ [][NextQueue]_vars
SpecRequest == Init /\ [][NextRequest]_vars
(* the operation and the timer of a withRetry call always settle *)
SpecRetry == Init /\ [][NextRetry]_vars /\ WF_vars(NextRetry)
(* the fetches and the 10 s waits of a submitAndGetSolution call settle *)
SpecCaptcha == Init /\ [][NextCaptcha]_vars /\ WF_vars(NextCaptcha)

---------------------------------------------------------------------------
(* Claims *)

OutsideOperatingHours(t) == GetHours(t) < 8 \/ GetHours(t) > 22

(* C1: for every action category the admission check returns false, and    *)
(* never true, whenever the category's daily or weekly count has reached   *)
(* its limit or the hour of the call is outside the operating window; the  *)
(* counts are those the check compared, after its reset.                   *)
C1_DeniedAtLimitOrOutsideHours ==
    /\ (/\ lastCall.op = "checkConnectionLimit"
        /\ \/ lastCall.connectionCount >= dailyConnectionLimit
           \/ lastCall.weeklyConnectionCount >= weeklyConnectionLimit
           \/ OutsideOperatingHours(lastCall.at))
       => lastCall.result = "false"
    /\ (/\ lastCall.op = "checkMessageLimit"
        /\ \/ lastCall.messageCount >= dailyMessageLimit
           \/ OutsideOperatingHours(lastCall.at))
       => lastCall.result = "false"

(* C2: in a sequential run of cycles (check, then increment if admitted)   *)
(* connectionCount never exceeds dailyConnectionLimit, no more than        *)
(* dailyConnectionLimit increments are recorded on one date, and a check   *)
(* returns true only while fewer than dailyConnectionLimit increments were *)
(* recorded on the date of the check.                                      *)
C2_DailyLimitHolds ==
    /\ connectionCount <= dailyConnectionLimit
    /\ dayAdmits <= dailyConnectionLimit
    /\ (lastCall.op = "checkConnectionLimit" /\ lastCall.result = "true")
       => dayAdmits < dailyConnectionLimit

(* The 16th check of a day, inside the operating window, is denied *)
C2_Witness ==
    /\ dayAdmits = dailyConnectionLimit
    /\ lastCall.op = "checkConnectionLimit"
    /\ lastCall.result = "false"
    /\ ~OutsideOperatingHours(lastCall.at)
    /\ lastCall.weeklyConnectionCount < weeklyConnectionLimit

(* C3: a checkConnectionLimit call made while a handleRateLimit call that  *)
(* observed a detection is still within its cool-down returns false.       *)
C3_DeniedDuringCooldown ==
    (lastCall.op = "checkConnectionLimit" /\ lastCall.cooldown)
    => lastCall.result = "false"

(* C4: connectionCount never exceeds dailyConnectionLimit, also when       *)
(* processConnectionQueue invocations overlap.                             *)
C4_CountWithinLimitWhenOverlapping == connectionCount <= dailyConnectionLimit

(* C5: every run of main ends with the browser closed. *)
C5_MainTerminates == <>(mainPc = "closed")

(* C6: a connection action happens only in a cycle whose admission check   *)
(* returned true: sendOneConnectionRequest in main's loop, and the move    *)
(* from the queue to pending in processConnectionQueue.                    *)
C6_ActionOnlyAfterAdmission ==
    /\ mainCycle.acted => mainCycle.admission = "true"
    /\ \A t \in Tasks :
          task[t].pc \in {"saveQueue", "savePending", "increment"}
          => task[t].admitted

(* A proxy, by its address: blacklisted is in blacklistedProxies and       *)
(* absent from proxyList; its score is low when a score stored for it is   *)
(* at most 0.2                                                             *)
IsBlacklisted(a) ==
    /\ BlacklistedAddr(blacklistedProxies, a)
    /\ \A i \in DOMAIN proxyList : proxyList[i].addr # a
HasLowScore(a) == \E k \in Keys : k.addr = a /\ Le02(proxyScores[k])

(* C7: a proxy is blacklisted (in blacklistedProxies and absent from       *)
(* proxyList) if and only if its reliability score is at most 0.2          *)
C7_BlacklistedIffLowScore == \A a \in Addrs : IsBlacklisted(a) <=> HasLowScore(a)

(* C8: getNextProxy and getRandomProxy never return a proxy that is        *)
(* blacklisted when they return, and no proxy of a blacklisted address is  *)
(* in proxyList, after a reload included                                   *)
C8_BlacklistedNeverServed ==
    /\ lastReturn.value # Null => ~lastReturn.blacklisted
    /\ \A i \in DOMAIN proxyList :
          ~BlacklistedAddr(blacklistedProxies, proxyList[i].addr)

(* C9: every stored proxy score is a number between 0 and 1 *)
C9_ScoresInUnitInterval ==
    \A k \in Keys :
        proxyScores[k] # "undefined" =>
            /\ IsNumber(proxyScores[k])
            /\ Idx("0") <= Idx(proxyScores[k])
            /\ Idx(proxyScores[k]) <= Idx("1")

(* C10: a getNextProxy call that has selected a proxy eventually returns *)
C10_GetNextProxyReturns == (gnp.pc = "validate") ~> (gnp.pc = "idle")

(* A cookie is unexpired at t, and scoped to the linkedin.com domain *)
Unexpired(cookie, t) == cookie.expires <= 0 \/ cookie.expires > t
ScopedToLinkedIn(cookie) ==
    /\ Len(cookie.domain) >= 2
    /\ cookie.domain[Len(cookie.domain) - 1] = "linkedin"
    /\ cookie.domain[Len(cookie.domain)] = "com"

(* C11: validateSession returns true only if every essential cookie is     *)
(* present, unexpired and scoped to linkedin.com, the session age is under *)
(* SESSION_EXPIRY_TIME and detectionScore is under the threshold           *)
C11_ValidOnlyIfSessionSound ==
    (lastSession.op = "validateSession" /\ lastSession.result = "true") =>
        /\ \A name \in essentialCookies :
              \E c \in lastSession.cookies :
                  /\ c.name = name
                  /\ Unexpired(c, lastSession.at)
                  /\ ScopedToLinkedIn(c)
        /\ lastSession.startBefore # 0 =>
              lastSession.at - lastSession.startBefore < SESSION_EXPIRY_TIME
        /\ lastSession.scoreBefore < Halves(DetectionThreshold)

(* C12: a validateSession check that finds no indicator while              *)
(* detectionScore > 0 lowers the score by 0.5, never below 0; the score    *)
(* rises, by 2, only on a check that finds an indicator                    *)
C12_DecayOnEveryCleanCheck ==
    lastSession.op = "validateSession" =>
        /\ (lastSession.result # "throws" /\ ~lastSession.indicator
               /\ lastSession.scoreBefore > 0) =>
              lastSession.scoreAfter = Max(0, lastSession.scoreBefore - 1)
        /\ lastSession.scoreAfter >= 0
        /\ lastSession.scoreAfter > lastSession.scoreBefore =>
              /\ lastSession.indicator
              /\ lastSession.scoreAfter =
                    lastSession.scoreBefore + Halves(DetectionIncrement)

(* C13: saveCookies throws and writes nothing when no essential cookie     *)
(* survives the filtering; when it writes, sessionStartTime is set and     *)
(* only cookies that pass the filter are stored                            *)
C13_SaveNeedsEssentialCookie ==
    lastSession.op = "saveCookies" =>
        /\ (~\E c \in FilterValidCookies(lastSession.cookies, lastSession.at) :
                c.name \in essentialCookies) =>
              (lastSession.result = "throws" /\ ~lastSession.wrote)
        /\ lastSession.wrote =>
              /\ sessionStartTime = lastSession.at
              /\ cookiesFile.exists
              /\ \A c \in cookiesFile.cookies :
                    c \in lastSession.cookies /\ FilterKeeps(c, lastSession.at)

(* The class the specification gives a failure message *)
ExpectedClass(message) ==
    IF SignalsRateLimit(message) THEN "RateLimited"
    ELSE IF IsSilentError(message) THEN "Silent"
    ELSE "Transient"

(* C14: a failure is classified by its message alone: network-layer        *)
(* messages Silent, rate-limit messages RateLimited (before Silent), a     *)
(* message matching no pattern Transient                                   *)
C14_ClassificationByMessage ==
    retry.silent # "none" => retry.silent = ExpectedClass(retry.lastThrown.message)

(* C15: after a failure that signals rate limiting the operation is not    *)
(* invoked again, and once the call has ended the rate limiter's backoff   *)
(* has been escalated                                                      *)
C15_RateLimitNeverRetried ==
    retry.rateLimitedAt # 0 =>
        /\ retry.calls = retry.rateLimitedAt
        /\ retry.pc \in {"returned", "thrown"} => consecutiveFailures > 0

(* C16: when every attempt fails, withRetry throws exactly the error the   *)
(* last attempt threw                                                      *)
C16_LastErrorRaised ==
    retry.pc = "thrown" =>
        /\ retry.outcome = retry.lastThrown
        /\ retry.outcome.thrownBy = retry.calls
C16_Witness ==
    /\ retry.pc = "thrown"
    /\ retry.rateLimitedAt \notin {0, retry.calls}
    /\ retry.silent = "Transient"

(* The delays of the source's configuration: 8000 * 2.5 ^ (i - 1) capped   *)
(* at 120000                                                               *)
ExpectedDelay(i) ==
    IF i = 1 THEN 8000 ELSE IF i = 2 THEN 20000 ELSE IF i = 3 THEN 50000 ELSE 120000
RetryBounded ==
    /\ retry.calls <= RetryMaxRetries
    /\ retry.pc = "returned" => retry.value = retry.calls
    /\ retry.pc \in {"returned", "thrown"} => Len(retry.sleeps) = retry.calls - 1
    /\ retry.pc = "sleeping" => Len(retry.sleeps) = retry.calls
    /\ retry.pc = "calling" => Len(retry.sleeps) = retry.calls
    /\ \A i \in DOMAIN retry.sleeps : retry.sleeps[i] = ExpectedDelay(i)

(* C17: withRetry invokes the operation at most maxRetries times, not      *)
(* after a success, whose value it returns; it sleeps calculateDelay(i)    *)
(* after failed attempt i but not after the last; and it ends              *)
C17_BoundedAttempts ==
    /\ []RetryBounded
    /\ (retry.pc = "calling") ~> (retry.pc \in {"returned", "thrown"})
C17_Witness ==
    /\ retry.pc = "returned"
    /\ retry.calls = RetryMaxRetries
    /\ Len(retry.sleeps) = RetryMaxRetries - 1

CaptchaBounded ==
    /\ captcha.polls <= maxAttempts
    /\ captcha.pc = "done" =>
          /\ captcha.result \in {"token", "null"}
          /\ captcha.result = "token" <=> captcha.lastStatus = "ready"
    /\ captcha.endedAt # 0 =>
          /\ captcha.polls = captcha.endedAt
          /\ captcha.pc = "done"
          /\ captcha.result = "null"
    /\ (captcha.pc = "done" /\ captcha.polls = maxAttempts
          /\ captcha.lastStatus = "processing") => captcha.result = "null"

(* C18: submitAndGetSolution ends after at most 30 getTaskResult polls; it *)
(* returns the token iff a poll reported ready; it polls no more after a   *)
(* status that is neither ready nor processing; a failed task and poll     *)
(* exhaustion both give null                                               *)
C18_PollingBounded ==
    /\ []CaptchaBounded
    /\ (captcha.pc = "polling") ~> (captcha.pc = "done")
C18_Witness ==
    /\ captcha.pc = "done"
    /\ captcha.polls = maxAttempts
    /\ captcha.lastStatus = "processing"
    /\ captcha.result = "null"

(* min(8, 2^(n-1)) as the claim lists it: 1, 2, 4, 8, 8, ... *)
ExpectedBackoff(n) ==
    [n |-> IF n = 1 THEN 1 ELSE IF n = 2 THEN 2 ELSE IF n = 3 THEN 4 ELSE 8,
     d |-> 1]

(* C19 as stated: starting from consecutiveFailures = 0, after n           *)
(* detections in a row (no detection-free handleRateLimit call in between) *)
(* backoffMultiplier is min(8, 2^(n-1))                                    *)
C19_BackoffDoublesAsStated ==
    streak.calls >= 1 => backoffMultiplier = ExpectedBackoff(streak.calls)

(* C19, amended: the same, provided no weekly reset of resetCounters came  *)
(* between the detections either                                           *)
C19_BackoffDoubles ==
    streak.sinceReset >= 1 => backoffMultiplier = ExpectedBackoff(streak.sinceReset)
C19_Witness == streak.sinceReset = MaxFailures /\ hrl.pc = "waiting"

(* C20: in every reachable state 1 <= backoffMultiplier <= 8 and           *)
(* consecutiveFailures >= 0                                                *)
C20_BackoffInRange ==
    /\ backoffMultiplier.d > 0
    /\ backoffMultiplier.d <= backoffMultiplier.n
    /\ backoffMultiplier.n <= 8 * backoffMultiplier.d
    /\ consecutiveFailures >= 0
C20_Witness ==
    /\ backoffMultiplier.d > 1
    /\ consecutiveFailures = 0
    /\ lastCall.op = "incrementConnectionCount"

(* C21: after the last detection, detection-free handleRateLimit calls     *)
(* bring the limiter back to consecutiveFailures = 0 and                   *)
(* backoffMultiplier = 1.  A detection-free call changes nothing once      *)
(* consecutiveFailures is 0, so the calls can get there only if the        *)
(* multiplier is 1 in every state in which consecutiveFailures is 0.       *)
C21_ReturnsToNormal ==
    consecutiveFailures = 0 => backoffMultiplier = Whole(1)

(* C22: a resetCounters call resets the daily counters exactly when its    *)
(* date differs from the date of the resetCounters call before it (or of   *)
(* the construction), so no date sees more than one daily reset; a check   *)
(* that made the reset compared counters of 0.                             *)
C22_DailyResetOncePerDate ==
    /\ resets.called => (resets.daily <=> resets.callDate # resets.prevDate)
    /\ resets.dailyCount <= 1
    /\ (lastCall.op = "checkConnectionLimit" /\ resets.daily)
       => (lastCall.connectionCount = 0 /\ lastCall.messageCount = 0)
(* The first check of a Tuesday clears the count of Monday's connections  *)
(* and leaves the week's count                                             *)
C22_Witness ==
    /\ resets.daily /\ resets.dailyCount = 1
    /\ resets.callDate # resets.prevDate
    /\ lastCall.op = "checkConnectionLimit"
    /\ lastCall.connectionCount = 0
    /\ lastCall.weeklyConnectionCount > 0

(* C23: once a resetCounters call has run, the last weekly reset (or the   *)
(* construction) lies in the week of that call, whatever its weekday: a    *)
(* call that found a week boundary passed made the weekly reset; and no    *)
(* week sees more than one weekly reset.                                   *)
C23_WeeklyResetAfterBoundary ==
    /\ resets.called => Week(resets.callDate) = Week(lastWeeklyReset)
    /\ resets.weeklyCount <= 1

(* a step that completes incrementConnectionCount or incrementMessageCount *)
IncrementStep ==
    /\ lastCall' # lastCall
    /\ lastCall'.op \in {"incrementConnectionCount", "incrementMessageCount"}

DeniedStep ==
    /\ lastCall' # lastCall
    /\ lastCall'.op = "checkConnectionLimit"
    /\ lastCall'.result = "false"

(* C25 as stated: a checkConnectionLimit call that returns false leaves    *)
(* the counters, the backoff state and the reset anchors as they were      *)
C25_DenialHasNoEffectAsStated ==
    [][DeniedStep
       => UNCHANGED <<connectionCount, weeklyConnectionCount, messageCount,
                      consecutiveFailures, backoffMultiplier,
                      lastResetDate, lastWeeklyReset>>]_vars

(* C25, amended: the same for a denied call on a date on which             *)
(* resetCounters has run before (or the limiter was constructed)           *)
C25_DenialHasNoEffect ==
    [][(DeniedStep /\ resets.callDate = DateString(now))
       => UNCHANGED <<connectionCount, weeklyConnectionCount, messageCount,
                      consecutiveFailures, backoffMultiplier,
                      lastResetDate, lastWeeklyReset>>]_vars
(* A check outside the operating hours is denied on a date that already    *)
(* has connections counted                                                 *)
C25_Witness ==
    /\ lastCall.op = "checkConnectionLimit"
    /\ lastCall.result = "false"
    /\ lastCall.at = now
    /\ resets.called /\ resets.callDate = resets.prevDate
    /\ connectionCount > 0

(* C30: every RateLimiter call completes without raising an error, and an  *)
(* incrementMessageCount call leaves messageCount one higher.              *)
C30_OperationsComplete ==
    /\ lastCall.result # "TypeError"
    /\ lastCall.op = "incrementMessageCount" => lastCall.messageCount > 0

(* C26: validateProxy never returns true for a proxy whose most recent     *)
(* probe failed (no response, or a response other than 200), also when     *)
(* the call skips the probe because the proxy was probed within            *)
(* proxyTestInterval.                                                      *)
C26_ValidOnlyAfterGoodProbe ==
    \A c \in probes.calls : c.result => c.probe = "ok200"

(* C27: a proxy that getNextProxy returns was, when it was selected, not   *)
(* blacklisted and among the three highest-scoring proxies of proxyList    *)
(* that are not blacklisted.                                               *)
C27_ReturnsTopThree ==
    lastReturn.selected => lastReturn.amongTop

CleanChecked ==
    /\ lastSession.op = "validateSession"
    /\ lastSession.result # "throws"
    /\ ~lastSession.indicator
    /\ \A name \in essentialCookies : \E c \in lastSession.cookies : c.name = name
    /\ \/ lastSession.startBefore = 0
       \/ lastSession.at - lastSession.startBefore <= SESSION_EXPIRY_TIME

(* C32: if from some point on every call is such a clean validateSession   *)
(* check, validateSession returns true again and again: a detectionScore   *)
(* that reached the threshold does not keep the session invalid forever.   *)
C32_SessionRecovers ==
    <>[]CleanChecked => []<>(lastSession.result = "true")

(* C33: a handleRateLimit call that observes a detection (the only step    *)
(* that raises consecutiveFailures) leaves backoffMultiplier greater than  *)
(* or equal to its value before the call.                                  *)
C33_DetectionNeverLowersBackoff ==
    [][consecutiveFailures' = consecutiveFailures + 1
       => backoffMultiplier'.n * backoffMultiplier.d
          >= backoffMultiplier.n * backoffMultiplier'.d]_vars

(* C39: follow-up invocations that run one at a time never leave two       *)
(* entries of messaged.json with the same profileUrl, and no invocation    *)
(* makes the list grow by more than one entry.                             *)
NoDuplicateMessaged ==
    \A i, j \in DOMAIN messagedFile :
        messagedFile[i] = messagedFile[j] => i = j
C39_NoUserMessagedTwice ==
    /\ []NoDuplicateMessaged
    /\ [][Len(messagedFile') <= Len(messagedFile) + 1]_vars
(* an invocation is in its loop over pending, the page shows the card of a *)
(* profile that is in messaged.json already                                *)
C39_Witness ==
    /\ sof.pc = "loop"
    /\ \E i \in DOMAIN messagedFile : messagedFile[i] \in sof.cards
    /\ \E i \in DOMAIN sof.pending : sof.pending[i].profile \in sof.cards

(* C34: one handleLoginRetry call invokes loginFunction at most            *)
(* MAX_LOGIN_RETRIES times; it returns true exactly when one of these      *)
(* invocations returned a truthy value, which ends the call at once with   *)
(* loginRetries = 0; a call that ends otherwise returns false.             *)
C34_LoginRetryWithinOneCall ==
    /\ login.invocations <= MAX_LOGIN_RETRIES
    /\ login.truthy <=> login.result = "true"
    /\ login.truthy => login.pc = "idle"
    /\ login.result = "true" => loginRetries = 0
    /\ (login.pc = "idle" /\ login.calls > 0) => login.result \in {"true", "false"}
(* a call has returned true from its third invocation *)
C34_Witness ==
    /\ login.result = "true"
    /\ login.invocations = MAX_LOGIN_RETRIES

(* C35: a handleLoginRetry call that returns false has invoked             *)
(* loginFunction at least once, whatever calls came before it.             *)
C35_EveryCallAttemptsLogin ==
    login.result = "false" => login.invocations >= 1

C38_NoQueuedProfileLost ==
    (/\ \A c \in AddCallers : adds[c].pc = "idle" /\ adds[c].result = "true"
     /\ adds[1].profiles # adds[2].profiles)
    => \A c \in AddCallers : \E i \in DOMAIN qmQueue : qmQueue[i] = adds[c].profiles[1]

(* C36: once an invocation of processConnectionQueue has ended, with or    *)
(* without a caught error, every profile the queue held is in queue.json   *)
(* or in pending.json, and no connection was counted without a move.       *)
C36_NoProfileLost ==
    (\A t \in Tasks : task[t].pc = "idle") =>
        /\ \A profile \in 1..QueueLen :
              \/ \E i \in DOMAIN queueFile : queueFile[i] = profile
              \/ \E i \in DOMAIN pendingFile : pendingFile[i].profile = profile
        /\ connectionCount <= Len(pendingFile)

(* C31: an intercepted request is resolved exactly once: it is never       *)
(* continued or aborted a second time, and when its handler has ended,     *)
(* also after using up its retries, it has been continued or aborted.      *)
C31_ResolvedExactlyOnce ==
    /\ req.resolutions <= 1
    /\ req.pc = "returned" => req.resolutions = 1

=============================================================================
